---- MODULE Spec2Model ----
(***************************************************************************)
(* A model of the hyper-evm-toolkit simulator core: the per-symbol order   *)
(* book (bridge/src/engine/order-book.ts with its price levels and side     *)
(* indices) and the virtual mempool (src/bridge/virtual-mempool.ts).        *)
(* Each component has its own specification; the variables of the other     *)
(* component are left unchanged.                                            *)
(***************************************************************************)
EXTENDS Integers, Sequences, FiniteSets, TLC

(***************************************************************************)
(* Bounds of the model.                                                     *)
(***************************************************************************)
\* prices are 1..MaxPrice ticks
MaxPrice == 2
\* quantities are 1..MaxQty lots
MaxQty == 2
\* number of submit/cancel calls made on the book in one behaviour
MaxOps == 3
\* number of transactions submitted to the mempool in one behaviour
MaxTx == 3
\* number of submit/cancel calls made on the engine in one behaviour
MaxCalls == 3
\* requests sent through the network simulator in one behaviour
MaxNetCalls == 3
\* latencies are 0..MaxLatency milliseconds
MaxLatency == 1
\* lines written to the command log file in one behaviour
MaxLines == 3
\* commands whose entries are written to the command log file
MaxLogCommands == 2
\* quantity of the largest iceberg order
MaxIcebergQty == 3
\* gas prices are 1..MaxGas
MaxGas == 2
\* blocks the timer mines while the mempool has nothing to settle
MaxIdleBlocks == 1
\* submissions arrive while blockNumber is at most this
LastSubmitBlock == 1

(***************************************************************************)
(* Book options, as the tests construct the book.                           *)
(***************************************************************************)
tickSize == 1
lotSize == 1
minOrderQuantity == 1

\* an optional number that is absent
undefined == -1
\* an absent object (a record, so that it compares with records)
null == [isNull |-> TRUE]

Users == {1, 2}
\* the empty user id ''
NoUser == 0
BookSymbol == "ETH-USD"

VARIABLES
    bids,        \* OrderBook.bids: side index, entries [key, value] in key order
    asks,        \* OrderBook.asks
    ordersById,  \* OrderBook.ordersById: id -> [side, price, node]
    sequence,    \* OrderBook.sequence
    tradeCount,  \* length of OrderBook.trades
    eventCount,  \* length of OrderBook.events
    opCount,     \* calls made so far
    last         \* the last call: its request, its result and what it recorded

bookVars == <<bids, asks, ordersById, sequence, tradeCount, eventCount, opCount, last>>

VARIABLES
    transactions,    \* VirtualMempool.transactions, in insertion order; txId = position
    pendingTxIds,    \* VirtualMempool.pendingTxIds
    blockNumber,     \* VirtualMempool.blockNumber
    processingTick,  \* VirtualMempool.processingTick
    pc,              \* where the running tick is suspended: idle, mine, noop, exec
    txIdsToInclude,  \* includePendingTransactions: the batch still to process
    clock,           \* Date.now()
    ticket,          \* counts inclusions and executor calls, to order them
    config           \* MempoolConfig and whether a bridge is attached

mempoolVars == <<transactions, pendingTxIds, blockNumber, processingTick, pc,
                 txIdsToInclude, clock, ticket, config>>

VARIABLES
    commandLog,      \* the command entries of the CommandLog file, in file order
    calls,           \* the engine calls made, each with its command and position
    orderToSymbol,   \* MatchingEngine.orderToSymbol (its key set: one symbol)
    applied,         \* the calls in the order they were applied to the book
    bus              \* the trade events emitted by the engine, in emit order

engineVars == <<commandLog, calls, orderToSymbol, applied, bus>>

VARIABLES
    logFile,         \* the CommandLog file: whether it exists, and its lines
    readResult,      \* the last readCommands call: the lines it read, its result
    network          \* the NetworkSimulator.execute calls made, each with its position

infraVars == <<logFile, readResult, network>>

VARIABLES
    skipList,        \* a NumericSkipList: head forwards, nodes, level, size
    skipMap,         \* the map the list stands for: key -> last value upserted
    skipLast         \* the last call on the list: the call, the list and map before

skipVars == <<skipList, skipMap, skipLast>>

VARIABLES
    cwQueue,         \* CoreWriterSim: the queued actions, head first
    cwEnqueued,      \* the number of actions queued so far (the next actionId - 1)
    cwProcessed,     \* HyperCore.processedActions: the actionIds marked processed
    cwSubmitted,     \* the actionIds given to engine.submitOrder, in call order
    cwSync           \* CoreWriterActionBridge: syncing and the locals of the syncOnce run

cwVars == <<cwQueue, cwEnqueued, cwProcessed, cwSubmitted, cwSync>>

vars == <<bookVars, mempoolVars, engineVars, infraVars, skipVars, cwVars>>

(***************************************************************************)
(* Small helpers.                                                           *)
(***************************************************************************)
Min(a, b) == IF a <= b THEN a ELSE b

RECURSIVE SumSeq(_)
SumSeq(s) == IF s = <<>> THEN 0 ELSE Head(s) + SumSeq(Tail(s))

\* the sequence s without its i-th element
RemoveAt(s, i) == SubSeq(s, 1, i - 1) \o SubSeq(s, i + 1, Len(s))

\* the sequence s with x inserted so that it becomes the i-th element
InsertAt(s, i, x) == SubSeq(s, 1, i - 1) \o <<x>> \o SubSeq(s, i, Len(s))

(***************************************************************************)
(* NumericSkipList: an ordered map from numeric key to value.  The model    *)
(* keeps the entries in key order, which is the order of the level-0 chain. *)
(***************************************************************************)
\* position of key in the index, 0 when absent
SkipPos(index, key) ==
    IF \E i \in 1..Len(index) : index[i].key = key
    THEN CHOOSE i \in 1..Len(index) : index[i].key = key
    ELSE 0

\* NumericSkipList.get
SkipGet(index, key) ==
    IF SkipPos(index, key) = 0 THEN null ELSE index[SkipPos(index, key)].value

\* NumericSkipList.upsert: replace the value of an existing key, else link a
\* new node after the last node whose key is smaller
SkipUpsert(index, key, value) ==
    IF SkipPos(index, key) # 0
    THEN [index EXCEPT ![SkipPos(index, key)].value = value]
    ELSE InsertAt(index, Cardinality({i \in 1..Len(index) : index[i].key < key}) + 1,
                  [key |-> key, value |-> value])

\* NumericSkipList.delete
SkipDelete(index, key) ==
    IF SkipPos(index, key) = 0 THEN index ELSE RemoveAt(index, SkipPos(index, key))

\* NumericSkipList.first: the entry with the smallest key, or null
SkipFirst(index) == IF index = <<>> THEN null ELSE index[1]

\* NumericSkipList.entries: the entries in key order; the limit is tested
\* after each entry is yielded
SkipEntries(index, limit) ==
    IF index = <<>> THEN <<>>
    ELSE SubSeq(index, 1, Min(Len(index), IF limit < 1 THEN 1 ELSE limit))

(***************************************************************************)
(* PriceLevel: FIFO queue of the orders at one price.  head is queue[1],    *)
(* tail is queue[Len(queue)]; a node is identified by its order's sequence. *)
(***************************************************************************)
NewPriceLevel(price) ==
    [price |-> price, queue |-> <<>>, orderCount |-> 0, totalVisibleQuantity |-> 0]

NodePos(level, node) ==
    IF \E i \in 1..Len(level.queue) : level.queue[i].sequence = node
    THEN CHOOSE i \in 1..Len(level.queue) : level.queue[i].sequence = node
    ELSE 0

\* PriceLevel.unlink
LevelUnlink(level, node) ==
    IF NodePos(level, node) = 0 THEN level
    ELSE [level EXCEPT !.queue = RemoveAt(level.queue, NodePos(level, node))]

\* PriceLevel.append
LevelAppend(level, order) ==
    [level EXCEPT !.queue = Append(level.queue, order),
                  !.orderCount = level.orderCount + 1,
                  !.totalVisibleQuantity =
                      level.totalVisibleQuantity + order.displayedRemainingQuantity]

\* PriceLevel.remove
LevelRemove(level, node) ==
    LET order == level.queue[NodePos(level, node)]
        unlinked == LevelUnlink(level, node)
    IN [unlinked EXCEPT !.orderCount = level.orderCount - 1,
                        !.totalVisibleQuantity =
                            level.totalVisibleQuantity - order.displayedRemainingQuantity]

\* faulty variant of LevelMoveToTail: the node keeps its place
LevelMoveToTail_stays(level, node) == level

\* PriceLevel.moveToTail
LevelMoveToTail(level, node) ==
    IF NodePos(level, node) = Len(level.queue) THEN level
    ELSE LET order == level.queue[NodePos(level, node)]
             unlinked == LevelUnlink(level, node)
         IN [unlinked EXCEPT !.queue = Append(unlinked.queue, order)]

\* faulty variant of LevelReduceVisibleQuantity: the total is left alone
LevelReduceVisibleQuantity_keeps(level, delta) == level

\* PriceLevel.reduceVisibleQuantity
LevelReduceVisibleQuantity(level, delta) ==
    [level EXCEPT !.totalVisibleQuantity = level.totalVisibleQuantity - delta]

\* PriceLevel.increaseVisibleQuantity
LevelIncreaseVisibleQuantity(level, delta) ==
    [level EXCEPT !.totalVisibleQuantity = level.totalVisibleQuantity + delta]

\* PriceLevel.isEmpty
LevelIsEmpty(level) == level.orderCount <= 0 \/ level.queue = <<>>

(***************************************************************************)
(* OrderBook helpers.  A book value b is the record of the book's fields:   *)
(* [bids, asks, ordersById, sequence, tradeCount, eventCount, recorded,     *)
(* process],                                                                *)
(* recorded being the events pushed to OrderBook.events during this call.   *)
(***************************************************************************)
oppositeSide(side) == IF side = "buy" THEN "sell" ELSE "buy"

toInternalPrice(side, price) == IF side = "buy" THEN -price ELSE price

indexForSide(b, side) == IF side = "buy" THEN b.bids ELSE b.asks

SetIndex(b, side, index) ==
    IF side = "buy" THEN [b EXCEPT !.bids = index] ELSE [b EXCEPT !.asks = index]

\* faulty variant of isCrossingPrice: equal prices do not cross
isCrossingPrice_strict(side, incomingPrice, bookPrice) ==
    IF side = "buy" THEN incomingPrice > bookPrice ELSE incomingPrice < bookPrice

\* OrderBook.isCrossingPrice
isCrossingPrice(side, incomingPrice, bookPrice) ==
    IF side = "buy" THEN incomingPrice >= bookPrice ELSE incomingPrice <= bookPrice

isStepMultiple(value, step) ==
    IF step <= 0 THEN FALSE ELSE value % step = 0

\* buildId('ord'): a random UUID, so an id no request carries, no other order
\* of this process received and no other process generates; process 0 is
\* the live one, process 1 the one that replays its log
buildId(process, n) == 100 * (process + 1) + n

\* faulty variant of getBestOppositeLevel: takes the last level of the index
getBestOppositeLevel_last(b, side) ==
    LET index == IF side = "buy" THEN b.asks ELSE b.bids
    IN IF index = <<>> THEN null ELSE index[Len(index)].value

\* OrderBook.getBestOppositeLevel
getBestOppositeLevel(b, side) ==
    LET levelEntry == IF side = "buy" THEN SkipFirst(b.asks) ELSE SkipFirst(b.bids)
    IN IF levelEntry = null THEN null ELSE levelEntry.value

\* the level object is mutated in place: store the new value under its key
PutLevel(b, side, level) ==
    SetIndex(b, side, SkipUpsert(indexForSide(b, side), toInternalPrice(side, level.price), level))

\* OrderBook.removeLevel
removeLevel(b, side, price) ==
    SetIndex(b, side, SkipDelete(indexForSide(b, side), toInternalPrice(side, price)))

\* OrderBook.getOrCreateLevel
getOrCreateLevel(b, side, price) ==
    LET existing == SkipGet(indexForSide(b, side), toInternalPrice(side, price))
    IN IF existing # null THEN existing ELSE NewPriceLevel(price)

\* faulty variant of OrderEvent: the event takes the sequence number as it
\* was before the counter advanced
OrderEvent_staleSequence(b, order, status, reason) ==
    [orderId |-> order.id, status |-> status, reason |-> reason,
     remainingQuantity |-> order.remainingQuantity, sequence |-> b.sequence]

\* OrderBook.createOrderEvent: advances the sequence and records the event
OrderEvent(b, order, status, reason) ==
    [orderId |-> order.id, status |-> status, reason |-> reason,
     remainingQuantity |-> order.remainingQuantity, sequence |-> b.sequence + 1]

createOrderEvent(b, order, status, reason) ==
    [b EXCEPT !.sequence = b.sequence + 1,
              !.eventCount = b.eventCount + 1,
              !.recorded = Append(b.recorded, OrderEvent(b, order, status, reason))]

\* OrderBook.removeOrderFromBook (level is the level after the caller's updates)
removeOrderFromBook(b, orderId, node, level, side) ==
    LET removed == LevelRemove(level, node)
        b1 == [PutLevel(b, side, removed) EXCEPT
                  !.ordersById = [i \in (DOMAIN b.ordersById) \ {orderId} |-> b.ordersById[i]]]
    IN IF LevelIsEmpty(removed) THEN removeLevel(b1, side, removed.price) ELSE b1

\* faulty variant of prepareOrderForBook: the displayed slice is not taken
\* out of the reserve
prepareOrderForBook_fullReserve(order) ==
    [order EXCEPT !.displayedRemainingQuantity =
                      Min(order.displayQuantity, order.remainingQuantity),
                  !.reserveRemainingQuantity = order.remainingQuantity]

\* faulty variant of prepareOrderForBook: the whole remainder is displayed
prepareOrderForBook_showsAll(order) ==
    [order EXCEPT !.displayedRemainingQuantity = order.remainingQuantity,
                  !.reserveRemainingQuantity = 0]

\* OrderBook.prepareOrderForBook
prepareOrderForBook(order) ==
    LET displayed == Min(order.displayQuantity, order.remainingQuantity)
    IN [order EXCEPT !.displayedRemainingQuantity = displayed,
                     !.reserveRemainingQuantity = order.remainingQuantity - displayed]

\* OrderBook.addOrderToBook
addOrderToBook(b, order) ==
    IF order.price = undefined THEN b
    ELSE LET level == LevelAppend(getOrCreateLevel(b, order.side, order.price), order)
         IN [PutLevel(b, order.side, level) EXCEPT
                !.ordersById =
                    [i \in (DOMAIN b.ordersById) \cup {order.id} |->
                        IF i = order.id
                        THEN [side |-> order.side, price |-> order.price,
                              node |-> order.sequence]
                        ELSE b.ordersById[i]]]

\* OrderBook.resolveTimeInForce
resolveTimeInForce(kind, requestTif) ==
    IF kind = "market"
    THEN (IF requestTif = "undefined" THEN "IOC" ELSE requestTif)
    ELSE (IF requestTif = "undefined" THEN "GTC" ELSE requestTif)

\* OrderBook.validateRequest: the reason of the first failing check, or "null"
validateRequest(request) ==
    IF request.symbol # BookSymbol THEN "symbol_mismatch"
    ELSE IF request.userId = NoUser THEN "missing_user_id"
    ELSE IF request.quantity <= 0 THEN "invalid_quantity"
    ELSE IF ~isStepMultiple(request.quantity, lotSize) THEN "quantity_not_lot_multiple"
    ELSE IF request.quantity < minOrderQuantity THEN "quantity_below_minimum"
    ELSE IF request.kind = "limit" /\ (request.price = undefined \/ request.price <= 0)
        THEN "invalid_limit_price"
    ELSE IF request.kind = "limit" /\ ~isStepMultiple(request.price, tickSize)
        THEN "price_not_tick_multiple"
    ELSE IF request.kind = "market" /\ request.price # undefined
        THEN "market_order_cannot_have_price"
    ELSE IF request.minQuantity # undefined
            /\ (request.minQuantity <= 0 \/ request.minQuantity > request.quantity)
        THEN "invalid_min_quantity"
    ELSE IF request.minQuantity # undefined /\ ~isStepMultiple(request.minQuantity, lotSize)
        THEN "min_quantity_not_lot_multiple"
    ELSE IF request.icebergDisplayQuantity # undefined /\ request.kind # "limit"
        THEN "iceberg_requires_limit_order"
    ELSE IF request.icebergDisplayQuantity # undefined
            /\ (request.icebergDisplayQuantity <= 0
                \/ request.icebergDisplayQuantity > request.quantity
                \/ ~isStepMultiple(request.icebergDisplayQuantity, lotSize))
        THEN "invalid_iceberg_display_quantity"
    ELSE "null"

\* OrderBook.createOrder (the caller has advanced the sequence to seq)
createOrder(request, seq, process) ==
    LET displayQuantity ==
            IF request.icebergDisplayQuantity # undefined
            THEN request.icebergDisplayQuantity ELSE request.quantity
        displayedRemainingQuantity == Min(displayQuantity, request.quantity)
    IN [id |-> IF request.id # undefined THEN request.id ELSE buildId(process, seq),
        userId |-> request.userId,
        side |-> request.side,
        kind |-> request.kind,
        timeInForce |-> resolveTimeInForce(request.kind, request.timeInForce),
        status |-> "NEW",
        price |-> request.price,
        originalQuantity |-> request.quantity,
        remainingQuantity |-> request.quantity,
        displayQuantity |-> displayQuantity,
        displayedRemainingQuantity |-> displayedRemainingQuantity,
        reserveRemainingQuantity |-> request.quantity - displayedRemainingQuantity,
        minQuantity |-> IF request.minQuantity # undefined
                        THEN request.minQuantity ELSE minOrderQuantity,
        selfTradePrevention |-> IF request.selfTradePrevention = "undefined"
                                THEN "none" ELSE request.selfTradePrevention,
        sequence |-> seq]

\* OrderBook.hasEnoughLiquidity: walk the opposite index in order
RECURSIVE LiquidityWalk(_, _, _)
LiquidityWalk(order, levels, cumulativeQuantity) ==
    IF levels = <<>> THEN FALSE
    ELSE LET level == Head(levels).value
         IN IF order.kind = "limit" /\ order.price # undefined
               /\ ~isCrossingPrice(order.side, order.price, level.price)
            THEN FALSE
            ELSE IF cumulativeQuantity + level.totalVisibleQuantity >= order.remainingQuantity
            THEN TRUE
            ELSE LiquidityWalk(order, Tail(levels),
                               cumulativeQuantity + level.totalVisibleQuantity)

hasEnoughLiquidity(b, order) ==
    LiquidityWalk(order, IF order.side = "buy" THEN b.asks ELSE b.bids, 0)

(***************************************************************************)
(* Instrumentation of a trade: what the book looked like when it was made.  *)
(***************************************************************************)
RECURSIVE DisplayedOf(_)
DisplayedOf(queue) ==
    IF queue = <<>> THEN 0
    ELSE Head(queue).displayedRemainingQuantity + DisplayedOf(Tail(queue))

\* price p has priority over price q on the given side of the book
BetterPrice(side, p, q) == IF side = "sell" THEN p < q ELSE p > q

\* displayed quantity resting on the maker's side with priority over the maker:
\* at a better price, or at the maker's price and before it in the queue
RECURSIVE PriorityAhead(_, _)
PriorityAhead(index, maker) ==
    IF index = <<>> THEN 0
    ELSE LET level == Head(index).value
             here == IF BetterPrice(maker.side, level.price, maker.price)
                     THEN DisplayedOf(level.queue)
                     ELSE IF level.price = maker.price /\ NodePos(level, maker.sequence) # 0
                     THEN DisplayedOf(SubSeq(level.queue, 1, NodePos(level, maker.sequence) - 1))
                     ELSE 0
         IN here + PriorityAhead(Tail(index), maker)

(***************************************************************************)
(* OrderBook.matchIncomingOrder.  m = [b, taker, trades, events, audit]:    *)
(* the book, the taker, and the result lists of this submission.            *)
(***************************************************************************)
\* faulty variant of createTradeRecord: a limit taker trades at its own price
createTradeRecord_takerPrice(maker, taker, quantity, price, seq) ==
    [price |-> IF taker.price # undefined THEN taker.price ELSE price,
     quantity |-> quantity, takerSide |-> taker.side,
     takerOrderId |-> taker.id, makerOrderId |-> maker.id,
     buyUserId |-> IF taker.side = "buy" THEN taker.userId ELSE maker.userId,
     sellUserId |-> IF taker.side = "sell" THEN taker.userId ELSE maker.userId,
     sequence |-> seq]

\* OrderBook.createTradeRecord
createTradeRecord(maker, taker, quantity, price, seq) ==
    [price |-> price, quantity |-> quantity, takerSide |-> taker.side,
     takerOrderId |-> taker.id, makerOrderId |-> maker.id,
     buyUserId |-> IF taker.side = "buy" THEN taker.userId ELSE maker.userId,
     sellUserId |-> IF taker.side = "sell" THEN taker.userId ELSE maker.userId,
     sequence |-> seq]

\* faulty variant of resolveSelfTradePrevention: the users are not compared
resolveSelfTradePrevention_proceeds(b, takerOrder, makerOrder, makerLevel) ==
    [outcome |-> "proceed", b |-> b]

\* OrderBook.resolveSelfTradePrevention: [outcome, b]
resolveSelfTradePrevention(b, takerOrder, makerOrder, makerLevel) ==
    IF takerOrder.userId # makerOrder.userId THEN [outcome |-> "proceed", b |-> b]
    ELSE IF takerOrder.selfTradePrevention = "none" THEN [outcome |-> "proceed", b |-> b]
    ELSE IF takerOrder.selfTradePrevention = "cancel_oldest"
    THEN [outcome |-> "continue",
          b |-> createOrderEvent(
                    removeOrderFromBook(b, makerOrder.id, makerOrder.sequence,
                                        makerLevel, makerOrder.side),
                    [makerOrder EXCEPT !.status = "CANCELED"], "CANCELED",
                    "self_trade_prevention_cancel_oldest")]
    ELSE IF takerOrder.selfTradePrevention = "cancel_newest"
    THEN [outcome |-> "cancel_taker", b |-> b]
    ELSE [outcome |-> "cancel_both",
          b |-> createOrderEvent(
                    removeOrderFromBook(b, makerOrder.id, makerOrder.sequence,
                                        makerLevel, makerOrder.side),
                    [makerOrder EXCEPT !.status = "CANCELED"], "CANCELED",
                    "self_trade_prevention_cancel_both")]

\* the taker is canceled by self-trade prevention (lines 313-337)
CancelTaker(m, b, reason) ==
    LET canceled == [m.taker EXCEPT !.status = "CANCELED"]
        b1 == createOrderEvent(b, canceled, "CANCELED", reason)
    IN [m EXCEPT !.b = b1,
                 !.events = Append(m.events, b1.recorded[Len(b1.recorded)]),
                 !.taker = [canceled EXCEPT !.remainingQuantity = 0]]

\* one trade against the head of bestLevel (lines 339-396)
ExecuteTrade(m, b, bestLevel) ==
    LET makerSide == oppositeSide(m.taker.side)
        activeMakerOrder == Head(bestLevel.queue)
        executableQuantity == Min(m.taker.remainingQuantity,
                                  activeMakerOrder.displayedRemainingQuantity)
        b1 == [b EXCEPT !.sequence = b.sequence + 1, !.tradeCount = b.tradeCount + 1]
        trade == createTradeRecord(activeMakerOrder, m.taker, executableQuantity,
                                   bestLevel.price, b1.sequence)
        seen == [makerPrice |-> activeMakerOrder.price,
                 makerNode |-> activeMakerOrder.sequence,
                 ahead |-> PriorityAhead(indexForSide(b, makerSide), activeMakerOrder)]
        taker == [m.taker EXCEPT !.remainingQuantity = m.taker.remainingQuantity - executableQuantity]
        traded == [activeMakerOrder EXCEPT
                      !.remainingQuantity = activeMakerOrder.remainingQuantity - executableQuantity,
                      !.displayedRemainingQuantity =
                          activeMakerOrder.displayedRemainingQuantity - executableQuantity]
        level1 == LevelReduceVisibleQuantity(
                      [bestLevel EXCEPT !.queue[1] = traded], executableQuantity)
        m1 == [m EXCEPT !.taker = taker,
                        !.trades = Append(m.trades, trade),
                        !.audit = Append(m.audit, seen)]
    IN IF traded.remainingQuantity = 0
       THEN LET filled == [traded EXCEPT !.status = "FILLED"]
                b2 == createOrderEvent(
                          removeOrderFromBook(b1, filled.id, filled.sequence, level1, filled.side),
                          filled, "FILLED", "undefined")
            IN [m1 EXCEPT !.b = b2,
                          !.events = Append(m.events, b2.recorded[Len(b2.recorded)])]
       ELSE LET partial == [traded EXCEPT !.status = "PARTIALLY_FILLED"]
                level2 == [level1 EXCEPT !.queue[1] = partial]
            IN IF partial.displayedRemainingQuantity = 0 /\ partial.reserveRemainingQuantity > 0
               THEN LET replenishQuantity == Min(partial.displayQuantity,
                                                 partial.reserveRemainingQuantity)
                        refreshed == [partial EXCEPT
                                         !.displayedRemainingQuantity = replenishQuantity,
                                         !.reserveRemainingQuantity =
                                             partial.reserveRemainingQuantity - replenishQuantity]
                        level3 == LevelMoveToTail(
                                      LevelIncreaseVisibleQuantity(
                                          [level2 EXCEPT !.queue[1] = refreshed],
                                          replenishQuantity),
                                      refreshed.sequence)
                    IN [m1 EXCEPT !.b = PutLevel(b1, makerSide, level3)]
               ELSE [m1 EXCEPT !.b = PutLevel(b1, makerSide, level2)]

\* Instrumentation of a trade: what the trade r left of the maker and of its
\* level, next to what they were in bestLevel before it.  A maker or a level
\* that is gone has position 0 and length 0.
AuditTrade(r, bestLevel) ==
    LET maker == Head(bestLevel.queue)
        seen == r.audit[Len(r.audit)]
        levelAfter == SkipGet(indexForSide(r.b, maker.side),
                              toInternalPrice(maker.side, bestLevel.price))
        posAfter == IF levelAfter = null THEN 0 ELSE NodePos(levelAfter, maker.sequence)
        makerAfter == IF posAfter = 0 THEN maker ELSE levelAfter.queue[posAfter]
    IN [r EXCEPT !.audit[Len(r.audit)] =
           [makerPrice |-> seen.makerPrice, makerNode |-> seen.makerNode,
            ahead |-> seen.ahead,
            displayQuantity |-> maker.displayQuantity,
            displayedBefore |-> maker.displayedRemainingQuantity,
            reserveBefore |-> maker.reserveRemainingQuantity,
            visibleBefore |-> bestLevel.totalVisibleQuantity,
            lengthBefore |-> Len(bestLevel.queue),
            posAfter |-> posAfter,
            displayedAfter |-> IF posAfter = 0 THEN 0
                               ELSE makerAfter.displayedRemainingQuantity,
            reserveAfter |-> IF posAfter = 0 THEN 0
                             ELSE makerAfter.reserveRemainingQuantity,
            visibleAfter |-> IF levelAfter = null THEN 0
                             ELSE levelAfter.totalVisibleQuantity,
            lengthAfter |-> IF levelAfter = null THEN 0 ELSE Len(levelAfter.queue)]]

RECURSIVE matchIncomingOrder(_)
matchIncomingOrder(m) ==
    IF m.taker.remainingQuantity <= 0 THEN m
    ELSE LET bestLevel == getBestOppositeLevel(m.b, m.taker.side)
         IN IF bestLevel = null THEN m
            ELSE IF m.taker.kind = "limit" /\ m.taker.price # undefined
                    /\ ~isCrossingPrice(m.taker.side, m.taker.price, bestLevel.price)
            THEN m
            ELSE IF bestLevel.queue = <<>>
            THEN matchIncomingOrder(
                     [m EXCEPT !.b = removeLevel(m.b, oppositeSide(m.taker.side), bestLevel.price)])
            ELSE LET stp == resolveSelfTradePrevention(m.b, m.taker, Head(bestLevel.queue), bestLevel)
                 IN IF stp.outcome = "continue"
                    THEN matchIncomingOrder([m EXCEPT !.b = stp.b])
                    ELSE IF stp.outcome = "cancel_taker"
                    THEN CancelTaker(m, stp.b, "self_trade_prevention_cancel_newest")
                    ELSE IF stp.outcome = "cancel_both"
                    THEN CancelTaker(m, stp.b, "self_trade_prevention_cancel_both")
                    ELSE IF Min(m.taker.remainingQuantity,
                                Head(bestLevel.queue).displayedRemainingQuantity) <= 0
                    THEN m
                    ELSE matchIncomingOrder(
                             AuditTrade(ExecuteTrade(m, stp.b, bestLevel), bestLevel))

(***************************************************************************)
(* OrderBook.submitOrder and OrderBook.cancelOrder, as functions of the     *)
(* book before the call.  The result carries the book after the call.       *)
(***************************************************************************)
LastOf(s) == s[Len(s)]

\* faulty variant of Rejected: the rejected order is posted to the book
Rejected_postsOrder(b, order, reason) ==
    LET rejected == [order EXCEPT !.status = "REJECTED"]
        b1 == createOrderEvent(b, rejected, "REJECTED", reason)
    IN [b |-> addOrderToBook(b1, prepareOrderForBook(rejected)), order |-> rejected,
        trades |-> <<>>, events |-> <<LastOf(b1.recorded)>>, audit |-> <<>>]

\* OrderBook.submitOrder, a rejection: the order is marked and one event made
Rejected(b, order, reason) ==
    LET rejected == [order EXCEPT !.status = "REJECTED"]
        b1 == createOrderEvent(b, rejected, "REJECTED", reason)
    IN [b |-> b1, order |-> rejected, trades |-> <<>>,
        events |-> <<LastOf(b1.recorded)>>, audit |-> <<>>]

\* faulty variant of Finish: the remainder of every limit order is posted, whatever
\* its time in force
Finish_postsAnyLimit(m) ==
    IF m.taker.remainingQuantity > 0
    THEN IF m.taker.kind = "limit"
         THEN LET prepared == prepareOrderForBook(m.taker)
                  status == IF prepared.remainingQuantity = prepared.originalQuantity
                            THEN "NEW" ELSE "PARTIALLY_FILLED"
                  resting == [prepared EXCEPT !.status = status]
                  b1 == createOrderEvent(addOrderToBook(m.b, resting), resting, status, "undefined")
              IN [b |-> b1, order |-> resting, trades |-> m.trades,
                  events |-> Append(m.events, LastOf(b1.recorded)), audit |-> m.audit]
         ELSE LET expired == [m.taker EXCEPT !.status = "EXPIRED"]
                  b1 == createOrderEvent(m.b, expired, "EXPIRED",
                            IF expired.kind = "market" THEN "market_order_unfilled_remainder"
                            ELSE "time_in_force_unfilled_remainder")
              IN [b |-> b1, order |-> expired, trades |-> m.trades,
                  events |-> Append(m.events, LastOf(b1.recorded)), audit |-> m.audit]
    ELSE LET filled == [m.taker EXCEPT !.status = "FILLED"]
             b1 == createOrderEvent(m.b, filled, "FILLED", "undefined")
         IN [b |-> b1, order |-> filled, trades |-> m.trades,
             events |-> Append(m.events, LastOf(b1.recorded)), audit |-> m.audit]

\* lines 83-112: what becomes of the incoming order after matching
Finish(m) ==
    IF m.taker.remainingQuantity > 0
    THEN IF m.taker.kind = "limit" /\ m.taker.timeInForce = "GTC"
         THEN LET prepared == prepareOrderForBook(m.taker)
                  status == IF prepared.remainingQuantity = prepared.originalQuantity
                            THEN "NEW" ELSE "PARTIALLY_FILLED"
                  resting == [prepared EXCEPT !.status = status]
                  b1 == createOrderEvent(addOrderToBook(m.b, resting), resting, status, "undefined")
              IN [b |-> b1, order |-> resting, trades |-> m.trades,
                  events |-> Append(m.events, LastOf(b1.recorded)), audit |-> m.audit]
         ELSE LET expired == [m.taker EXCEPT !.status = "EXPIRED"]
                  b1 == createOrderEvent(m.b, expired, "EXPIRED",
                            IF expired.kind = "market" THEN "market_order_unfilled_remainder"
                            ELSE "time_in_force_unfilled_remainder")
              IN [b |-> b1, order |-> expired, trades |-> m.trades,
                  events |-> Append(m.events, LastOf(b1.recorded)), audit |-> m.audit]
    ELSE LET filled == [m.taker EXCEPT !.status = "FILLED"]
             b1 == createOrderEvent(m.b, filled, "FILLED", "undefined")
         IN [b |-> b1, order |-> filled, trades |-> m.trades,
             events |-> Append(m.events, LastOf(b1.recorded)), audit |-> m.audit]

submitOrder(b, request) ==
    LET validationError == validateRequest(request)
        b1 == [b EXCEPT !.sequence = b.sequence + 1]
        order == createOrder(request, b1.sequence, b.process)
    IN IF validationError # "null" THEN Rejected(b1, order, validationError)
       ELSE IF order.timeInForce = "FOK" /\ ~hasEnoughLiquidity(b1, order)
       THEN Rejected(b1, order, "insufficient_liquidity_for_fok")
       ELSE Finish(matchIncomingOrder(
                [b |-> b1, taker |-> order, trades |-> <<>>, events |-> <<>>, audit |-> <<>>]))

\* faulty variant of cancelOrder: the user is not compared
cancelOrder_anyUser(b, orderId, userId) ==
    IF orderId \notin DOMAIN b.ordersById
    THEN [b |-> b, canceled |-> FALSE, reason |-> "order_not_found", order |-> null,
          events |-> <<>>]
    ELSE LET orderReference == b.ordersById[orderId]
             level == SkipGet(indexForSide(b, orderReference.side),
                              toInternalPrice(orderReference.side, orderReference.price))
             order == level.queue[NodePos(level, orderReference.node)]
             canceledOrder == [order EXCEPT !.status = "CANCELED"]
             b1 == createOrderEvent(
                       removeOrderFromBook(b, orderId, orderReference.node, level,
                                           orderReference.side),
                       canceledOrder, "CANCELED", "canceled_by_user")
         IN [b |-> b1, canceled |-> TRUE, reason |-> "undefined",
             order |-> canceledOrder, events |-> <<LastOf(b1.recorded)>>]

\* OrderBook.cancelOrder
cancelOrder(b, orderId, userId) ==
    IF orderId \notin DOMAIN b.ordersById
    THEN [b |-> b, canceled |-> FALSE, reason |-> "order_not_found", order |-> null,
          events |-> <<>>]
    ELSE LET orderReference == b.ordersById[orderId]
             level == SkipGet(indexForSide(b, orderReference.side),
                              toInternalPrice(orderReference.side, orderReference.price))
             order == level.queue[NodePos(level, orderReference.node)]
         IN IF userId # NoUser /\ order.userId # userId
            THEN [b |-> b, canceled |-> FALSE, reason |-> "user_mismatch", order |-> null,
                  events |-> <<>>]
            ELSE LET canceledOrder == [order EXCEPT !.status = "CANCELED"]
                     b1 == createOrderEvent(
                               removeOrderFromBook(b, orderId, orderReference.node, level,
                                                   orderReference.side),
                               canceledOrder, "CANCELED", "canceled_by_user")
                 IN [b |-> b1, canceled |-> TRUE, reason |-> "undefined",
                     order |-> canceledOrder, events |-> <<LastOf(b1.recorded)>>]

(***************************************************************************)
(* The requests the model sends to the book.                                *)
(***************************************************************************)
Sides == {"buy", "sell"}
Prices == 1..MaxPrice
Quantities == 1..MaxQty

Request(id, userId, side, kind, quantity, price, tif, iceberg, stp) ==
    [symbol |-> BookSymbol, id |-> id, userId |-> userId, side |-> side, kind |-> kind,
     quantity |-> quantity, price |-> price, timeInForce |-> tif,
     minQuantity |-> undefined, icebergDisplayQuantity |-> iceberg,
     selfTradePrevention |-> stp]

\* the price that crosses every level of the opposite side
AggressivePrice(side) == IF side = "buy" THEN MaxPrice ELSE 1

\* plain GTC limit orders of both users
RestingRequests ==
    {Request(undefined, u, s, "limit", q, p, "GTC", undefined, "undefined") :
        u \in Users, s \in Sides, q \in Quantities, p \in Prices}

\* GTC limit orders that carry the caller's id 1
IdRequests ==
    {Request(1, 1, s, "limit", 1, p, "GTC", undefined, "undefined") :
        s \in Sides, p \in Prices}

\* iceberg orders showing one lot, time in force left to its default
IcebergRequests ==
    {Request(undefined, 2, s, "limit", q, p, "undefined", 1, "undefined") :
        s \in Sides, q \in 2..MaxQty, p \in Prices}
    \cup {Request(undefined, 2, "sell", "limit", MaxIcebergQty, 1, "undefined", d,
                  "undefined") : d \in 1 .. MaxIcebergQty - 1}

\* IOC and FOK limit orders and market orders, no self-trade prevention
TakerRequests ==
    {Request(undefined, 2, s, "limit", q, p, tif, undefined, "undefined") :
        s \in Sides, q \in Quantities, p \in Prices, tif \in {"IOC", "FOK"}}
    \cup
    {Request(undefined, 2, s, "market", q, undefined, tif, undefined, "undefined") :
        s \in Sides, q \in Quantities, tif \in {"undefined", "FOK"}}

\* orders of user 1 with a self-trade prevention mode, at a crossing price
StpRequests ==
    {Request(undefined, 1, s, "limit", MaxQty, AggressivePrice(s), tif, undefined, stp) :
        s \in Sides, tif \in {"GTC", "IOC", "FOK"},
        stp \in {"cancel_newest", "cancel_oldest", "cancel_both"}}

\* requests that fail validation
InvalidRequests ==
    {Request(undefined, 1, "buy", "limit", 0, 1, "GTC", undefined, "undefined"),
     Request(undefined, 1, "sell", "market", 1, 1, "undefined", undefined, "undefined"),
     Request(undefined, 2, "buy", "market", 1, undefined, "undefined", 1, "undefined"),
     Request(undefined, NoUser, "sell", "limit", 1, 1, "GTC", undefined, "undefined")}

Requests ==
    RestingRequests \cup IdRequests \cup IcebergRequests \cup TakerRequests
        \cup StpRequests \cup InvalidRequests

\* ids a cancel may name: the resting ones and the caller's id 1
CancelIds == (DOMAIN ordersById) \cup {1}

(***************************************************************************)
(* Virtual mempool (src/src/bridge/virtual-mempool.ts)                     *)
(***************************************************************************)

\* MempoolConfig.maxTransactionsPerBlock and MempoolConfig.defaultConfirmations
maxTransactionsPerBlock == 2
defaultConfirmations == 1
\* confirmationProbabilityPerBlock and XorShift32.nextFloat, both in halves:
\* the probability is 0, 1/2 or 1, a draw is 1/2 or 1 (nextFloat is never 0)
Probabilities == {0, 1, 2}
nextFloat == {1, 2}
\* the forced-confirmation distance of confirmIncludedTransactions
ForcedAfter == 5

Payloads == {"good", "bad"}
GasPrices == 1 .. MaxGas
PriorityFees == {0, 1}
Confirmations == {undefined, 2}

\* what a caller passes to submit: the plain submission (good payload, gas 1,
\* no priority fee, default confirmations) and those that differ from it in
\* one respect
PlainSubmission ==
    [payload |-> "good", gasPrice |-> 1, maxPriorityFeePerGas |-> 0,
     confirmations |-> undefined]
Submissions ==
    {r \in [payload : Payloads, gasPrice : GasPrices,
            maxPriorityFeePerGas : PriorityFees, confirmations : Confirmations] :
        Cardinality({f \in DOMAIN r : r[f] # PlainSubmission[f]}) <= 1}

\* stands for whatever AnvilBridge.submitNoopTransaction returned: a hash,
\* or undefined when it has no wallet or the send failed; nothing reads it
noopResult == "noopResult"

\* the executor handed to the constructor: it throws on a bad payload
executor(payload) ==
    IF payload = "bad"
    THEN [threw |-> TRUE, value |-> "boom"]
    ELSE [threw |-> FALSE, value |-> "done"]

\* String(error) of the Error the executor throws
String(error) ==
    IF error = "boom" THEN "Error: boom" ELSE error

TheMempool ==
    [transactions |-> transactions, pendingTxIds |-> pendingTxIds,
     blockNumber |-> blockNumber, processingTick |-> processingTick, pc |-> pc,
     txIdsToInclude |-> txIdsToInclude, ticket |-> ticket]

StoreMempool(s) ==
    /\ transactions' = s.transactions
    /\ pendingTxIds' = s.pendingTxIds
    /\ blockNumber' = s.blockNumber
    /\ processingTick' = s.processingTick
    /\ pc' = s.pc
    /\ txIdsToInclude' = s.txIdsToInclude
    /\ ticket' = s.ticket

\* the transaction object built by submit; promise is the state of the
\* handle's future; executions, includedAt, executedAt and batchBlock record
\* what happened to the transaction
VirtualTransaction(txId, payload, now, options) ==
    [txId |-> txId, status |-> "pending", payload |-> payload,
     submittedAtMs |-> now,
     includedBlockNumber |-> undefined, confirmedBlockNumber |-> undefined,
     gasPrice |-> options.gasPrice,
     maxPriorityFeePerGas |-> options.maxPriorityFeePerGas,
     requiredConfirmations |->
         IF options.confirmations = undefined
         THEN config.defaultConfirmations
         ELSE options.confirmations,
     result |-> "undefined", error |-> "undefined", anvilTxHash |-> "undefined",
     promise |-> "pending",
     executions |-> 0, includedAt |-> 0, executedAt |-> 0,
     batchBlock |-> undefined]

effectiveGas(tx) == tx.gasPrice + tx.maxPriorityFeePerGas

\* faulty variant of compareTx: lower effective gas sorts first
compareTx_ascending(left, right) ==
    IF effectiveGas(left) = effectiveGas(right)
    THEN left.submittedAtMs - right.submittedAtMs
    ELSE IF effectiveGas(right) > effectiveGas(left) THEN -1 ELSE 1

\* the comparator given to pendingTxIds.sort: negative puts left first
compareTx(left, right) ==
    IF effectiveGas(left) = effectiveGas(right)
    THEN left.submittedAtMs - right.submittedAtMs
    ELSE IF effectiveGas(right) > effectiveGas(left) THEN 1 ELSE -1

\* Array.prototype.sort is stable: an id goes before the first id that
\* must come after it
RECURSIVE sortIds(_, _, _)
sortIds(txs, sorted, ids) ==
    IF ids = <<>> THEN sorted
    ELSE LET id == Head(ids)
             after == {i \in 1 .. Len(sorted) :
                          compareTx(txs[sorted[i]], txs[id]) > 0}
             at == IF after = {} THEN Len(sorted) + 1
                   ELSE CHOOSE i \in after : \A j \in after : i <= j
         IN sortIds(txs, InsertAt(sorted, at, id), Tail(ids))

\* faulty variant of belowRequiredDepth: the depth is never looked at
belowRequiredDepth_never(elapsedBlocks, requiredConfirmations) ==
    FALSE

\* confirmIncludedTransactions: elapsedBlocks < tx.requiredConfirmations
belowRequiredDepth(elapsedBlocks, requiredConfirmations) ==
    elapsedBlocks < requiredConfirmations

\* faulty variant of shouldConfirm: the floor comes one block late
shouldConfirm_lateFloor(draw, elapsedBlocks, requiredConfirmations) ==
    \/ draw <= config.confirmationProbabilityPerBlock
    \/ elapsedBlocks >= requiredConfirmations + ForcedAfter + 1

\* confirmIncludedTransactions: shouldConfirm
shouldConfirm(draw, elapsedBlocks, requiredConfirmations) ==
    \/ draw <= config.confirmationProbabilityPerBlock
    \/ elapsedBlocks >= requiredConfirmations + ForcedAfter

\* draws[i] is the value nextFloat() returns when transaction i is examined
confirmIncludedTransactions(s, draws) ==
    [s EXCEPT !.transactions = [i \in DOMAIN s.transactions |->
        LET tx == s.transactions[i]
            elapsedBlocks == s.blockNumber - tx.includedBlockNumber + 1
        IN IF tx.status # "included" \/ tx.includedBlockNumber = undefined
           THEN tx
           ELSE IF belowRequiredDepth(elapsedBlocks, tx.requiredConfirmations)
           THEN tx
           ELSE IF ~shouldConfirm(draws[i], elapsedBlocks, tx.requiredConfirmations)
           THEN tx
           ELSE [tx EXCEPT !.status = "confirmed",
                           !.confirmedBlockNumber = s.blockNumber,
                           !.promise = "resolved"]]]

\* faulty variant of finishTick: processingTick is not released
finishTick_keepsFlag(s, draws) ==
    [confirmIncludedTransactions(s, draws) EXCEPT !.pc = "idle", !.ticket = 0]

\* tick, from the return of includePendingTransactions to the end of finally
finishTick(s, draws) ==
    [confirmIncludedTransactions(s, draws) EXCEPT
        !.processingTick = FALSE, !.pc = "idle", !.ticket = 0]

\* the call this.executor(tx.payload) for the head of the batch
callExecutor(s) ==
    LET txId == Head(s.txIdsToInclude)
    IN [s EXCEPT !.transactions[txId].executions = @ + 1,
                 !.transactions[txId].executedAt = s.ticket + 1,
                 !.ticket = @ + 1,
                 !.pc = "exec"]

\* the for loop of includePendingTransactions from its head to the next
\* await, or to the end of the tick when the batch is exhausted
RECURSIVE includeLoop(_, _)
includeLoop(s, draws) ==
    IF s.txIdsToInclude = <<>> THEN finishTick(s, draws)
    ELSE LET txId == Head(s.txIdsToInclude)
             tx == s.transactions[txId]
         IN IF tx.status # "pending"
            THEN includeLoop([s EXCEPT !.txIdsToInclude = Tail(@)], draws)
            ELSE LET included ==
                         [s EXCEPT !.transactions[txId].status = "included",
                                   !.transactions[txId].includedBlockNumber =
                                       s.blockNumber,
                                   !.transactions[txId].includedAt = s.ticket + 1,
                                   !.ticket = @ + 1]
                 IN IF config.bridge
                    THEN [included EXCEPT !.pc = "noop"]
                    ELSE callExecutor(included)

\* faulty variant of takeBatch: the whole queue becomes the batch
takeBatch_wholeQueue(s) ==
    LET sorted == sortIds(s.transactions, <<>>, s.pendingTxIds)
    IN [s EXCEPT !.pendingTxIds = <<>>,
                 !.txIdsToInclude = sorted,
                 !.transactions = [i \in DOMAIN s.transactions |->
                     IF i \in {sorted[k] : k \in 1 .. Len(sorted)}
                     THEN [s.transactions[i] EXCEPT !.batchBlock = s.blockNumber]
                     ELSE s.transactions[i]]]

\* includePendingTransactions, the sort and the splice: the queue is sorted
\* and its first includeCount ids become the batch
takeBatch(s) ==
    LET sorted == sortIds(s.transactions, <<>>, s.pendingTxIds)
        includeCount == Min(Len(sorted), config.maxTransactionsPerBlock)
        batch == SubSeq(sorted, 1, includeCount)
        taken == {batch[i] : i \in 1 .. includeCount}
    IN [s EXCEPT !.pendingTxIds = SubSeq(sorted, includeCount + 1, Len(sorted)),
                 !.txIdsToInclude = batch,
                 !.transactions = [i \in DOMAIN s.transactions |->
                     IF i \in taken
                     THEN [s.transactions[i] EXCEPT !.batchBlock = s.blockNumber]
                     ELSE s.transactions[i]]]

includePendingTransactions(s, draws) ==
    IF Len(s.pendingTxIds) = 0 THEN finishTick(s, draws)
    ELSE includeLoop(takeBatch(s), draws)

\* tick, when an exception reaches it: the catch logs, the finally releases
\* the flag; the batch, a local of includePendingTransactions, is gone
failTick(s) ==
    [s EXCEPT !.processingTick = FALSE, !.pc = "idle",
              !.txIdsToInclude = <<>>, !.ticket = 0]

\* the loop body for the head of the batch when onTransactionUpdate throws
\* at the emit that follows the inclusion
includeThenHookThrows(s) ==
    LET txId == Head(s.txIdsToInclude)
    IN failTick([s EXCEPT !.transactions[txId].status = "included",
                          !.transactions[txId].includedBlockNumber = s.blockNumber,
                          !.transactions[txId].includedAt = s.ticket + 1])

\* faulty variant of catchExecutorError: the status is left at included
catchExecutorError_keepsStatus(s, txId, error) ==
    [s EXCEPT !.transactions[txId].error = String(error),
              !.transactions[txId].promise = "rejected"]

\* faulty variant of catchExecutorError: the rest of the batch is dropped
catchExecutorError_rethrow(s, txId, error) ==
    [s EXCEPT !.transactions[txId].status = "failed",
              !.transactions[txId].error = String(error),
              !.transactions[txId].promise = "rejected",
              !.txIdsToInclude = <<txId>>]

\* the catch block around the executor call
catchExecutorError(s, txId, error) ==
    [s EXCEPT !.transactions[txId].status = "failed",
              !.transactions[txId].error = String(error),
              !.transactions[txId].promise = "rejected"]

Draws == [1 .. MaxTx -> nextFloat]

\* Date.now() in submit: one millisecond after the previous submission
Now == {clock + 1}

\* the transactions a tick can still move: those queued and those included
Unsettled == {i \in DOMAIN transactions :
                 \/ transactions[i].status = "included"
                 \/ \E k \in 1 .. Len(pendingTxIds) : pendingTxIds[k] = i}

MempoolAtRest ==
    /\ transactions = <<>>
    /\ pendingTxIds = <<>>
    /\ blockNumber = 0
    /\ processingTick = FALSE
    /\ pc = "idle"
    /\ txIdsToInclude = <<>>
    /\ clock = 0
    /\ ticket = 0
    /\ config = [maxTransactionsPerBlock |-> maxTransactionsPerBlock,
                 defaultConfirmations |-> defaultConfirmations,
                 confirmationProbabilityPerBlock |-> 2,
                 bridge |-> FALSE]


(***************************************************************************)
(* Matching engine (src/src/engine/skip-list.ts, class MatchingEngine) and *)
(* its command log (CommandLog).  An engine value e is                     *)
(* [b, orderToSymbol]: its one book and the key set of its order map.      *)
(***************************************************************************)

\* EngineConfig.maxOrderBookDepth
maxDepth == 50

\* OrderBook.collectDepth
collectDepth(b, side, depth) ==
    LET index == SkipEntries(indexForSide(b, side), depth)
    IN [i \in 1 .. Len(index) |->
           [price |-> index[i].value.price,
            quantity |-> index[i].value.totalVisibleQuantity,
            orderCount |-> index[i].value.orderCount]]

\* OrderBook.getDepth
getDepth(b) ==
    [bids |-> collectDepth(b, "buy", maxDepth), asks |-> collectDepth(b, "sell", maxDepth)]

\* OrderBook.getActiveOrderCount
getActiveOrderCount(b) == Cardinality(DOMAIN b.ordersById)

\* the events of a result that end an order in the engine's map
EndedOrderIds(events) ==
    {events[i].orderId : i \in {k \in 1 .. Len(events) :
        events[k].status \in {"FILLED", "CANCELED", "EXPIRED"}}}

\* MatchingEngine.applySubmitOrder, what follows book.submitOrder: the
\* order map is updated from the result
recordSubmitResult(e, result) ==
    LET kept == /\ result.order.remainingQuantity > 0
                /\ result.order.kind = "limit"
                /\ result.order.timeInForce = "GTC"
        map1 == IF kept THEN e.orderToSymbol \cup {result.order.id}
                ELSE e.orderToSymbol \ {result.order.id}
    IN [e |-> [b |-> result.b, orderToSymbol |-> map1 \ EndedOrderIds(result.events)],
        result |-> result]

\* MatchingEngine.applySubmitOrder from the return of appendCommand to the
\* call of appendEvent
applySubmitOrder(e, command) ==
    recordSubmitResult(e, submitOrder(e.b, command.payload))

\* MatchingEngine.applyCancelOrder, what follows book.cancelOrder
recordCancelResult(e, command, result) ==
    [e |-> [b |-> result.b,
            orderToSymbol |-> IF result.canceled
                              THEN e.orderToSymbol \ {command.payload.orderId}
                              ELSE e.orderToSymbol],
     found |-> TRUE, result |-> result]

\* MatchingEngine.applyCancelOrder from the return of appendCommand to the
\* call of appendEvent, or to its early return
applyCancelOrder(e, command) ==
    IF /\ command.payload.symbol = "undefined"
       /\ command.payload.orderId \notin e.orderToSymbol
    THEN [e |-> e, found |-> FALSE,
          result |-> [b |-> e.b, canceled |-> FALSE,
                      reason |-> "order_symbol_not_found", order |-> null,
                      events |-> <<>>]]
    ELSE recordCancelResult(e, command,
             cancelOrder(e.b, command.payload.orderId, command.payload.userId))

\* a fresh engine of another process, with the same configuration
FreshEngine ==
    [b |-> [bids |-> <<>>, asks |-> <<>>, ordersById |-> [i \in {} |-> null],
            sequence |-> 0, tradeCount |-> 0, eventCount |-> 0, recorded |-> <<>>,
            process |-> 1],
     orderToSymbol |-> {}]

\* MatchingEngine.replayFromCommandLog: the commands re-applied in log order
RECURSIVE replayFromCommandLog(_, _)
replayFromCommandLog(e, commands) ==
    IF commands = <<>> THEN e
    ELSE LET command == Head(commands)
             next == IF command.type = "submit_order"
                     THEN applySubmitOrder([e EXCEPT !.b.recorded = <<>>], command).e
                     ELSE applyCancelOrder([e EXCEPT !.b.recorded = <<>>], command).e
         IN replayFromCommandLog(next, Tail(commands))

EngineAtRest ==
    /\ commandLog = <<>>
    /\ calls = <<>>
    /\ orderToSymbol = {}
    /\ applied = <<>>
    /\ bus = <<>>


(***************************************************************************)
(* CommandLog (src/unnamed/part_003): a file of lines, one JSON entry per   *)
(* line.  A line of the model is what JSON.parse makes of it: a command     *)
(* entry, an event entry, or text that is not JSON (a torn or damaged       *)
(* line).                                                                  *)
(***************************************************************************)
\* the commands whose entries the model writes to the file
LoggedCommands == 1 .. MaxLogCommands

CommandEntry(c) == [entryType |-> "command", payload |-> c]
EventEntry == [entryType |-> "event", payload |-> 0]
TornLine == [entryType |-> "not JSON", payload |-> 0]
BlankLine == [entryType |-> "blank", payload |-> 0]

\* content.split of a file whose lines all end with a newline: the lines,
\* then the empty string after the last newline
SplitLines(lines) == Append(lines, BlankLine)

\* the loop of readCommands over the split lines: [threw, commands]
RECURSIVE readLines(_, _)
readLines(lines, commands) ==
    IF lines = <<>> THEN [threw |-> FALSE, commands |-> commands]
    ELSE LET line == Head(lines)
         IN IF line.entryType = "blank" THEN readLines(Tail(lines), commands)
            ELSE IF line.entryType = "not JSON"
            THEN [threw |-> TRUE, commands |-> commands]
            ELSE IF line.entryType = "command"
            THEN readLines(Tail(lines), Append(commands, line.payload))
            ELSE readLines(Tail(lines), commands)

\* CommandLog.readCommands: readFile and the loop run in one try block whose
\* catch returns the empty list
readCommands(file) ==
    IF ~file.exists THEN <<>>
    ELSE LET r == readLines(SplitLines(file.lines), <<>>)
         IN IF r.threw THEN <<>> ELSE r.commands

(***************************************************************************)
(* NumericSkipList as linked nodes.  A node is named by its position in     *)
(* nodes; HeadNode names the head, NullNode the null reference.  Level i of *)
(* the source (0-based) is level i + 1 here.  A node no longer linked is    *)
(* dropped from nodes.                                                      *)
(***************************************************************************)
MAX_LEVEL == 16
MaxNodeLevel == 2
MaxKey == 1
MaxValue == 2
MaxSkipOps == 4

HeadNode == 0
NullNode == -1

SkipKeys == (0 - MaxKey) .. MaxKey
SkipValues == 1 .. MaxValue
\* the levels nextLevel() can draw, up to the number of levels kept
NodeLevels == 1 .. Min(MAX_LEVEL, MaxNodeLevel)

\* NumericSkipList constructor
NewSkipList ==
    [head |-> [i \in NodeLevels |-> NullNode], nodes |-> <<>>, level |-> 1, size |-> 0]

\* node.forwards[i], undefined (as falsy as null) above the node's level
Forward(s, node, i) ==
    IF node = HeadNode THEN s.head[i]
    ELSE IF i <= Len(s.nodes[node].forwards) THEN s.nodes[node].forwards[i]
    ELSE NullNode

\* the inner loop of get, upsert and delete: advance on level i while the
\* next key is smaller
RECURSIVE Advance(_, _, _, _)
Advance(s, cursor, i, key) ==
    LET next == Forward(s, cursor, i)
    IN IF next # NullNode /\ s.nodes[next].key < key
       THEN Advance(s, next, i, key)
       ELSE cursor

\* the outer loop of get, upsert and delete, from level i down: the last
\* cursor and the update array
RECURSIVE Descend(_, _, _, _, _)
Descend(s, key, i, cursor, update) ==
    IF i = 0 THEN [cursor |-> cursor, update |-> update]
    ELSE LET reached == Advance(s, cursor, i, key)
         IN Descend(s, key, i - 1, reached, [update EXCEPT ![i] = reached])

Search(s, key) ==
    Descend(s, key, s.level, HeadNode, [i \in NodeLevels |-> HeadNode])

\* NumericSkipList.get
ListGet(s, key) ==
    LET candidate == Forward(s, Search(s, key).cursor, 1)
    IN IF candidate # NullNode /\ s.nodes[candidate].key = key
       THEN s.nodes[candidate].value
       ELSE undefined

\* NumericSkipList.upsert, nodeLevel being the level nextLevel() draws
ListUpsert(s, key, value, nodeLevel) ==
    LET found == Search(s, key)
        existing == Forward(s, found.cursor, 1)
        node == Len(s.nodes) + 1
    IN IF existing # NullNode /\ s.nodes[existing].key = key
       THEN [s EXCEPT !.nodes[existing].value = value]
       ELSE [head |-> [i \in NodeLevels |->
                          IF i <= nodeLevel /\ found.update[i] = HeadNode
                          THEN node ELSE s.head[i]],
             nodes |-> Append(
                 [n \in 1 .. Len(s.nodes) |->
                     [s.nodes[n] EXCEPT !.forwards =
                         [i \in 1 .. Len(s.nodes[n].forwards) |->
                             IF i <= nodeLevel /\ found.update[i] = n
                             THEN node ELSE s.nodes[n].forwards[i]]]],
                 [key |-> key, value |-> value,
                  forwards |-> [i \in 1 .. nodeLevel |->
                                   Forward(s, found.update[i], i)]]),
             level |-> IF nodeLevel > s.level THEN nodeLevel ELSE s.level,
             size |-> s.size + 1]

\* the reference p once node target is dropped from nodes
Renamed(p, target) == IF p > target THEN p - 1 ELSE p

\* the level of the list after a delete: lowered while the head has no
\* forward on the top level
RECURSIVE LoweredLevel(_, _)
LoweredLevel(head, level) ==
    IF level > 1 /\ head[level] = NullNode THEN LoweredLevel(head, level - 1) ELSE level

\* NumericSkipList.delete: the list after the call and the value returned
ListDelete(s, key) ==
    LET found == Search(s, key)
        target == Forward(s, found.cursor, 1)
        \* update[i].forwards[i] after the unlinking loop
        Unlinked(node, i) ==
            IF i <= s.level /\ found.update[i] = node /\ Forward(s, node, i) = target
            THEN Forward(s, target, i)
            ELSE Forward(s, node, i)
        head1 == [i \in NodeLevels |-> Renamed(Unlinked(HeadNode, i), target)]
        nodes1 == [n \in 1 .. Len(s.nodes) |->
                      [s.nodes[n] EXCEPT !.forwards =
                          [i \in 1 .. Len(s.nodes[n].forwards) |->
                              Renamed(Unlinked(n, i), target)]]]
    IN IF target = NullNode \/ s.nodes[target].key # key
       THEN [list |-> s, returned |-> FALSE]
       ELSE [list |-> [head |-> head1,
                       nodes |-> RemoveAt(nodes1, target),
                       level |-> LoweredLevel(head1, s.level),
                       size |-> s.size - 1],
             returned |-> TRUE]

\* NumericSkipList.first
ListFirst(s) ==
    LET node == s.head[1]
    IN IF node = NullNode \/ s.nodes[node].value = undefined THEN null
       ELSE [key |-> s.nodes[node].key, value |-> s.nodes[node].value]

\* NumericSkipList.entries from cursor on, yielded entries having been
\* yielded so far; limit is undefined when the caller gives none
RECURSIVE EntriesFrom(_, _, _, _)
EntriesFrom(s, cursor, yielded, limit) ==
    IF cursor = NullNode THEN <<>>
    ELSE IF s.nodes[cursor].value # undefined
    THEN <<[key |-> s.nodes[cursor].key, value |-> s.nodes[cursor].value]>>
         \o (IF limit # undefined /\ yielded + 1 >= limit THEN <<>>
             ELSE EntriesFrom(s, Forward(s, cursor, 1), yielded + 1, limit))
    ELSE EntriesFrom(s, Forward(s, cursor, 1), yielded, limit)

\* NumericSkipList.entries
ListEntries(s, limit) == EntriesFrom(s, s.head[1], 0, limit)

SkipAtRest ==
    /\ skipList = NewSkipList
    /\ skipMap = <<>>
    /\ skipLast = [op |-> "none", key |-> 0, value |-> 0, returned |-> FALSE,
                   list |-> NewSkipList, map |-> <<>>, calls |-> 0]

(***************************************************************************)
(* CoreWriterActionBridge (corewriter-action-bridge.ts) and the two         *)
(* contracts it talks to: the CoreWriter queue and HyperCore's              *)
(* processedActions.  Contract reads return; a transaction the bridge       *)
(* sends succeeds, fails, or is mined while the bridge is told it failed.   *)
(***************************************************************************)
MaxActions == 3
MaxSyncRuns == 3

\* the run of syncOnce that is not running: its locals after the last run
IdleSync ==
    [syncing |-> FALSE, pc |-> "idle", actions |-> <<>>, seen |-> <<>>,
     handled |-> <<>>, processed |-> 0, applied |-> 0, failed |-> 0,
     consumableCount |-> 0, asked |-> 0, runs |-> 0]

CwAtRest ==
    /\ cwQueue = <<>>
    /\ cwEnqueued = 0
    /\ cwProcessed = {}
    /\ cwSubmitted = <<>>
    /\ cwSync = IdleSync

InfraAtRest ==
    /\ logFile = [exists |-> FALSE, lines |-> <<>>]
    /\ readResult = [done |-> FALSE, file |-> [exists |-> FALSE, lines |-> <<>>],
                     commands |-> <<>>]
    /\ network = <<>>

(***************************************************************************)
(* The book as a state machine.                                             *)
(***************************************************************************)
TheBook ==
    [bids |-> bids, asks |-> asks, ordersById |-> ordersById, sequence |-> sequence,
     tradeCount |-> tradeCount, eventCount |-> eventCount, recorded |-> <<>>,
     process |-> 0]

NoRequest == Request(undefined, NoUser, "buy", "limit", 0, undefined, "undefined",
                     undefined, "undefined")

BookInit ==
    /\ bids = <<>>
    /\ asks = <<>>
    /\ ordersById = [i \in {} |-> null]
    /\ sequence = 0
    /\ tradeCount = 0
    /\ eventCount = 0
    /\ opCount = 0
    /\ last = [op |-> "none", request |-> NoRequest, orderId |-> undefined,
               userId |-> NoUser, order |-> null, trades |-> <<>>, events |-> <<>>,
               audit |-> <<>>, recorded |-> <<>>, canceled |-> FALSE,
               reason |-> "undefined"]

StoreBook(b) ==
    /\ bids' = b.bids
    /\ asks' = b.asks
    /\ ordersById' = b.ordersById
    /\ sequence' = b.sequence
    /\ tradeCount' = b.tradeCount
    /\ eventCount' = b.eventCount

SubmitOrder ==
    /\ opCount < MaxOps
    /\ \E request \in Requests :
        LET r == submitOrder(TheBook, request)
        IN /\ StoreBook(r.b)
           /\ last' = [op |-> "submit", request |-> request, orderId |-> undefined,
                       userId |-> NoUser, order |-> r.order, trades |-> r.trades,
                       events |-> r.events, audit |-> r.audit,
                       recorded |-> r.b.recorded, canceled |-> FALSE,
                       reason |-> "undefined"]
    /\ opCount' = opCount + 1
    /\ UNCHANGED <<mempoolVars, engineVars, infraVars, skipVars, cwVars>>

CancelOrder ==
    /\ opCount < MaxOps
    /\ \E orderId \in CancelIds, userId \in {NoUser, 1} :
        LET r == cancelOrder(TheBook, orderId, userId)
        IN /\ StoreBook(r.b)
           /\ last' = [op |-> "cancel", request |-> NoRequest, orderId |-> orderId,
                       userId |-> userId, order |-> r.order, trades |-> <<>>,
                       events |-> r.events, audit |-> <<>>,
                       recorded |-> r.b.recorded, canceled |-> r.canceled,
                       reason |-> r.reason]
    /\ opCount' = opCount + 1
    /\ UNCHANGED <<mempoolVars, engineVars, infraVars, skipVars, cwVars>>

BookNext == SubmitOrder \/ CancelOrder

\* the order book driven by submit and cancel calls; no mempool is running
BookSpecInit == BookInit /\ MempoolAtRest /\ EngineAtRest /\ InfraAtRest /\ SkipAtRest /\ CwAtRest

BookSpec == BookSpecInit /\ [][BookNext]_vars

(***************************************************************************)
(* Properties of the order book.                                            *)
(***************************************************************************)
RECURSIVE TradedQuantity(_)
TradedQuantity(ts) ==
    IF ts = <<>> THEN 0 ELSE Head(ts).quantity + TradedQuantity(Tail(ts))

\* the node is linked in some price level of the book
IsLinked(node) ==
    \E side \in Sides :
        LET index == IF side = "buy" THEN bids ELSE asks
        IN \E i \in 1..Len(index) :
            \E j \in 1..Len(index[i].value.queue) :
                index[i].value.queue[j].sequence = node

\* the last call was a submission that passed validation and the FOK pre-check
Accepted == last.op = "submit" /\ last.order.status # "REJECTED"

\* C1: price-time priority.  When a trade is made, no displayed quantity
\* rests on the maker's side at a better price, or at the maker's price
\* ahead of the maker in the level's queue.
C1_PriceTimePriority ==
    last.op = "submit" =>
        \A i \in 1..Len(last.audit) : last.audit[i].ahead = 0

\* a buy that traded at two prices, the lower one first
C1_Witness ==
    /\ last.op = "submit"
    /\ last.request.side = "buy"
    /\ Len(last.trades) = 2
    /\ last.trades[1].price < last.trades[2].price
    /\ last.trades[1].makerOrderId # last.trades[2].makerOrderId

\* C2: every trade executes at the price at which its maker rests, and a
\* limit taker never trades at a price worse than its limit.
C2_TradeAtMakerPrice ==
    last.op = "submit" =>
        \A i \in 1..Len(last.trades) :
            /\ last.trades[i].price = last.audit[i].makerPrice
            /\ (last.order.kind = "limit" /\ last.order.side = "buy")
                   => last.trades[i].price <= last.order.price
            /\ (last.order.kind = "limit" /\ last.order.side = "sell")
                   => last.trades[i].price >= last.order.price

\* a limit buy that traded below its limit
C2_Witness ==
    /\ last.op = "submit"
    /\ last.order.kind = "limit"
    /\ last.order.side = "buy"
    /\ Len(last.trades) > 0
    /\ last.trades[1].price < last.order.price

\* C3: a FOK submission is all-or-nothing: it is filled in full, or it is
\* rejected for insufficient liquidity with no trade and the book unchanged.
C3_FokAllOrNothing ==
    [][(/\ opCount' = opCount + 1
        /\ last'.op = "submit"
        /\ validateRequest(last'.request) = "null"
        /\ last'.order.timeInForce = "FOK")
       => \/ /\ TradedQuantity(last'.trades) = last'.order.originalQuantity
             /\ last'.order.status = "FILLED"
          \/ /\ last'.trades = <<>>
             /\ last'.order.status = "REJECTED"
             /\ last'.events[1].reason = "insufficient_liquidity_for_fok"
             /\ bids' = bids /\ asks' = asks /\ ordersById' = ordersById]_bookVars

\* the head maker of the best level of the opposite side crosses the request
\* and belongs to the requesting user
OwnHeadOfBestCrossingLevel(b, request) ==
    LET bestLevel == getBestOppositeLevel(b, request.side)
    IN /\ bestLevel # null
       /\ request.kind = "limit" => isCrossingPrice(request.side, request.price, bestLevel.price)
       /\ bestLevel.queue # <<>>
       /\ Head(bestLevel.queue).userId = request.userId

StpReason(mode) ==
    IF mode = "cancel_newest" THEN "self_trade_prevention_cancel_newest"
    ELSE "self_trade_prevention_cancel_both"

\* C4: a cancel_newest or cancel_both taker that meets its own order at the
\* head of the best crossing level is returned CANCELED with the mode's
\* reason, and makes no trade.
C4_StpTakerReturnedCanceled ==
    [][(/\ opCount' = opCount + 1
        /\ last'.op = "submit"
        /\ validateRequest(last'.request) = "null"
        /\ last'.order.status # "REJECTED"
        /\ last'.request.selfTradePrevention \in {"cancel_newest", "cancel_both"}
        /\ OwnHeadOfBestCrossingLevel(TheBook, last'.request))
       => /\ last'.order.status = "CANCELED"
          /\ last'.trades = <<>>
          /\ \E i \in 1..Len(last'.events) :
                /\ last'.events[i].orderId = last'.order.id
                /\ last'.events[i].status = "CANCELED"
                /\ last'.events[i].reason = StpReason(last'.request.selfTradePrevention)]_bookVars

MempoolInit ==
    /\ transactions = <<>>
    /\ pendingTxIds = <<>>
    /\ blockNumber = 0
    /\ processingTick = FALSE
    /\ pc = "idle"
    /\ txIdsToInclude = <<>>
    /\ clock = 0
    /\ ticket = 0
    /\ config \in [maxTransactionsPerBlock : {maxTransactionsPerBlock},
                   defaultConfirmations : {defaultConfirmations},
                   confirmationProbabilityPerBlock : Probabilities,
                   bridge : BOOLEAN]

\* submit(payload, options)
Submit ==
    /\ Len(transactions) < MaxTx
    /\ blockNumber <= LastSubmitBlock
    /\ \E r \in Submissions, now \in Now :
        LET txId == Len(transactions) + 1
            tx == VirtualTransaction(txId, r.payload, now,
                      [gasPrice |-> r.gasPrice,
                       maxPriorityFeePerGas |-> r.maxPriorityFeePerGas,
                       confirmations |-> r.confirmations])
        IN /\ transactions' = Append(transactions, tx)
           /\ pendingTxIds' = Append(pendingTxIds, txId)
           /\ clock' = now
    /\ UNCHANGED <<blockNumber, processingTick, pc, txIdsToInclude, ticket, config>>
    /\ UNCHANGED <<bookVars, engineVars, infraVars, skipVars, cwVars>>

\* the timer fires while no tick is running: tick up to its first await
TickStart ==
    /\ ~processingTick
    /\ Unsettled # {} \/ blockNumber < MaxIdleBlocks
    /\ LET s == [TheMempool EXCEPT !.processingTick = TRUE,
                                   !.blockNumber = @ + 1]
       IN IF config.bridge
          THEN StoreMempool([s EXCEPT !.pc = "mine"])
          ELSE \E draws \in Draws : StoreMempool(includePendingTransactions(s, draws))
    /\ UNCHANGED <<clock, config>>
    /\ UNCHANGED <<bookVars, engineVars, infraVars, skipVars, cwVars>>

\* faulty variant of TickSkipped: the fire starts a second tick body
TickSkipped_runsBody ==
    /\ processingTick
    /\ blockNumber' = blockNumber + 1
    /\ UNCHANGED <<transactions, pendingTxIds, processingTick, pc, txIdsToInclude,
                   clock, ticket, config>>
    /\ UNCHANGED <<bookVars, engineVars, infraVars, skipVars, cwVars>>

\* the timer fires while a tick is running: tick returns at once
TickSkipped ==
    /\ processingTick
    /\ UNCHANGED mempoolVars
    /\ UNCHANGED <<bookVars, engineVars, infraVars, skipVars, cwVars>>

\* bridge.mineBlock() settles
MineReturn ==
    /\ pc = "mine"
    /\ \E draws \in Draws : StoreMempool(includePendingTransactions(TheMempool, draws))
    /\ UNCHANGED <<clock, config>>
    /\ UNCHANGED <<bookVars, engineVars, infraVars, skipVars, cwVars>>

\* bridge.submitNoopTransaction() settles
NoopReturn ==
    /\ pc = "noop"
    /\ LET txId == Head(txIdsToInclude)
       IN StoreMempool(callExecutor(
              [TheMempool EXCEPT !.transactions[txId].anvilTxHash = noopResult]))
    /\ UNCHANGED <<clock, config>>
    /\ UNCHANGED <<bookVars, engineVars, infraVars, skipVars, cwVars>>

\* the executor settles: it returned a result or it threw
ExecReturn ==
    /\ pc = "exec"
    /\ LET txId == Head(txIdsToInclude)
           outcome == executor(transactions[txId].payload)
           s == IF outcome.threw
                THEN catchExecutorError(TheMempool, txId, outcome.value)
                ELSE [TheMempool EXCEPT !.transactions[txId].result = outcome.value]
       IN \E draws \in Draws :
              StoreMempool(includeLoop([s EXCEPT !.txIdsToInclude = Tail(@)], draws))
    /\ UNCHANGED <<clock, config>>
    /\ UNCHANGED <<bookVars, engineVars, infraVars, skipVars, cwVars>>

MempoolNext ==
    \/ Submit
    \/ TickStart
    \/ TickSkipped
    \/ MineReturn
    \/ NoopReturn
    \/ ExecReturn

\* the mempool driven by submissions and the block timer; the bridge and the
\* update hooks return normally, the executor may throw
MempoolSpecInit == BookInit /\ MempoolInit /\ EngineAtRest /\ InfraAtRest /\ SkipAtRest /\ CwAtRest

MempoolSpec == MempoolSpecInit /\ [][MempoolNext]_vars

\* The steps of MempoolNext told by their effect on the tick: TickStart is
\* the only step that advances blockNumber, MineReturn the only one that
\* leaves pc = "mine", NoopReturn the only one that leaves pc = "noop" and
\* ExecReturn the only one that shortens txIdsToInclude.
TimerFires ==
    /\ ~processingTick
    /\ Unsettled # {} \/ blockNumber < MaxIdleBlocks
    /\ blockNumber' = blockNumber + 1

MineBlockSettles ==
    /\ pc = "mine"
    /\ pc' \in {"idle", "noop", "exec"}

SubmitNoopSettles ==
    /\ pc = "noop"
    /\ pc' = "exec"

ExecutorSettles ==
    /\ pc = "exec"
    /\ txIdsToInclude' \in {SubSeq(txIdsToInclude, k, Len(txIdsToInclude)) :
                               k \in 2 .. Len(txIdsToInclude) + 1}

\* The same steps when the onTransactionUpdate hook throws at the emit that
\* follows an inclusion: the exception leaves includePendingTransactions and
\* ends the tick.
TickStartHookThrows ==
    /\ ~processingTick
    /\ Unsettled # {} \/ blockNumber < MaxIdleBlocks
    /\ ~config.bridge
    /\ Len(pendingTxIds) > 0
    /\ StoreMempool(includeThenHookThrows(takeBatch(
           [TheMempool EXCEPT !.processingTick = TRUE, !.blockNumber = @ + 1])))
    /\ UNCHANGED <<clock, config>>
    /\ UNCHANGED <<bookVars, engineVars, infraVars, skipVars, cwVars>>

MineReturnHookThrows ==
    /\ pc = "mine"
    /\ Len(pendingTxIds) > 0
    /\ StoreMempool(includeThenHookThrows(takeBatch(TheMempool)))
    /\ UNCHANGED <<clock, config>>
    /\ UNCHANGED <<bookVars, engineVars, infraVars, skipVars, cwVars>>

ExecReturnHookThrows ==
    /\ pc = "exec"
    /\ Len(txIdsToInclude) > 1
    /\ LET txId == Head(txIdsToInclude)
           outcome == executor(transactions[txId].payload)
           s == IF outcome.threw
                THEN catchExecutorError(TheMempool, txId, outcome.value)
                ELSE [TheMempool EXCEPT !.transactions[txId].result = outcome.value]
       IN StoreMempool(includeThenHookThrows([s EXCEPT !.txIdsToInclude = Tail(@)]))
    /\ UNCHANGED <<clock, config>>
    /\ UNCHANGED <<bookVars, engineVars, infraVars, skipVars, cwVars>>

MempoolFaultyNext ==
    \/ Submit
    \/ TickStart
    \/ TickSkipped
    \/ MineReturn
    \/ NoopReturn
    \/ ExecReturn
    \/ TickStartHookThrows
    \/ MineReturnHookThrows
    \/ ExecReturnHookThrows

\* the mempool when the update hook may throw
MempoolFaultySpec == MempoolSpecInit /\ [][MempoolFaultyNext]_vars

\* the timer keeps firing (setInterval) and every awaited call settles
MempoolFairSpec ==
    /\ MempoolSpec
    /\ WF_blockNumber(TimerFires)
    /\ WF_pc(MineBlockSettles)
    /\ WF_pc(SubmitNoopSettles)
    /\ WF_txIdsToInclude(ExecutorSettles)


(***************************************************************************)
(* The engine as a state machine.  A call is suspended twice: on           *)
(* commandLog.appendCommand (position append until its line is in the      *)
(* file, then written until the await returns) and on                      *)
(* commandLog.appendEvent (position event).  Calls run concurrently: the   *)
(* file system decides when each line lands and when each await returns.   *)
(***************************************************************************)
TheEngine == [b |-> TheBook, orderToSymbol |-> orderToSymbol]

\* what callers send to the engine: user 1 sells with a limit, with a
\* generated id or with id 1; user 2 buys with a limit or at market
EngineRequests ==
    {Request(undefined, 1, "sell", "limit", q, p, "GTC", undefined, "undefined") :
        q \in Quantities, p \in Prices}
    \cup {r \in IdRequests : r.side = "sell"}
    \cup {Request(undefined, 2, "buy", "limit", 1, MaxPrice, "GTC", undefined,
                  "undefined"),
          Request(undefined, 2, "buy", "market", MaxQty, undefined, "undefined",
                  undefined, "undefined")}

CommandIds == 1 .. Len(calls)

SetCall(c, position, trades) ==
    [calls EXCEPT ![c].position = position, ![c].trades = trades]

\* MatchingEngine.submitOrder up to the await of appendCommand
EngineSubmitOrder ==
    /\ Len(calls) < MaxCalls
    /\ \E request \in EngineRequests :
        calls' = Append(calls,
            [command |-> [commandId |-> Len(calls) + 1, type |-> "submit_order",
                          payload |-> request],
             position |-> "append", trades |-> <<>>])
    /\ UNCHANGED <<commandLog, orderToSymbol, applied, bus>>
    /\ UNCHANGED <<bookVars, mempoolVars, infraVars, skipVars, cwVars>>

\* MatchingEngine.cancelOrder up to the await of appendCommand
EngineCancelOrder ==
    /\ Len(calls) < MaxCalls
    /\ \E orderId \in CancelIds, symbol \in {BookSymbol, "undefined"} :
        calls' = Append(calls,
            [command |-> [commandId |-> Len(calls) + 1, type |-> "cancel_order",
                          payload |-> [orderId |-> orderId, userId |-> NoUser,
                                       symbol |-> symbol]],
             position |-> "append", trades |-> <<>>])
    /\ UNCHANGED <<commandLog, orderToSymbol, applied, bus>>
    /\ UNCHANGED <<bookVars, mempoolVars, infraVars, skipVars, cwVars>>

\* CommandLog.appendEntry: appendFile puts the line of a call in the file
AppendCommandWrites ==
    \E c \in CommandIds :
        /\ calls[c].position = "append"
        /\ commandLog' = Append(commandLog, calls[c].command)
        /\ calls' = SetCall(c, "written", <<>>)
        /\ UNCHANGED <<orderToSymbol, applied, bus>>
        /\ UNCHANGED <<bookVars, mempoolVars, infraVars, skipVars, cwVars>>

\* the await of appendCommand returns: the command is applied to the book
AppendCommandReturns ==
    \E c \in CommandIds :
        /\ calls[c].position = "written"
        /\ IF calls[c].command.type = "submit_order"
           THEN \E r \in {applySubmitOrder(TheEngine, calls[c].command)} :
                   /\ StoreBook(r.e.b)
                   /\ orderToSymbol' = r.e.orderToSymbol
                   /\ last' = [op |-> "submit", request |-> calls[c].command.payload,
                               orderId |-> undefined, userId |-> NoUser,
                               order |-> r.result.order, trades |-> r.result.trades,
                               events |-> r.result.events, audit |-> r.result.audit,
                               recorded |-> r.e.b.recorded, canceled |-> FALSE,
                               reason |-> "undefined"]
                   /\ calls' = SetCall(c, "event",
                          [i \in 1 .. Len(r.result.trades) |-> r.result.trades[i].sequence])
           ELSE \E r \in {applyCancelOrder(TheEngine, calls[c].command)} :
                   /\ StoreBook(r.e.b)
                   /\ orderToSymbol' = r.e.orderToSymbol
                   /\ last' = [op |-> "cancel", request |-> NoRequest,
                               orderId |-> calls[c].command.payload.orderId,
                               userId |-> NoUser, order |-> r.result.order,
                               trades |-> <<>>, events |-> r.result.events,
                               audit |-> <<>>, recorded |-> r.e.b.recorded,
                               canceled |-> r.result.canceled,
                               reason |-> r.result.reason]
                   /\ calls' = SetCall(c, IF r.found THEN "event" ELSE "done", <<>>)
        /\ applied' = Append(applied, c)
        /\ UNCHANGED <<commandLog, bus, opCount>>
        /\ UNCHANGED <<mempoolVars, infraVars, skipVars, cwVars>>

\* the await of appendEvent returns: the result and its trades are emitted
AppendEventReturns ==
    \E c \in CommandIds :
        /\ calls[c].position = "event"
        /\ bus' = bus \o [i \in 1 .. Len(calls[c].trades) |->
                             [commandId |-> c, sequence |-> calls[c].trades[i]]]
        /\ calls' = SetCall(c, "done", calls[c].trades)
        /\ UNCHANGED <<commandLog, orderToSymbol, applied>>
        /\ UNCHANGED <<bookVars, mempoolVars, infraVars, skipVars, cwVars>>

EngineNext ==
    \/ EngineSubmitOrder
    \/ EngineCancelOrder
    \/ AppendCommandWrites
    \/ AppendCommandReturns
    \/ AppendEventReturns

EngineSpecInit == BookInit /\ MempoolAtRest /\ EngineAtRest /\ InfraAtRest /\ SkipAtRest /\ CwAtRest

\* the engine under concurrent calls
EngineSpec == EngineSpecInit /\ [][EngineNext]_vars

(***************************************************************************)
(* The command log file as a state machine: entries are appended, a line   *)
(* is torn or damaged, and the file is read.                               *)
(***************************************************************************)
\* appendFile: the line is added at the end; the file is made if missing
appendFile(file, line) == [exists |-> TRUE, lines |-> Append(file.lines, line)]

\* CommandLog.appendCommand
LogAppendCommand ==
    /\ Len(logFile.lines) < MaxLines
    /\ \E c \in LoggedCommands : logFile' = appendFile(logFile, CommandEntry(c))
    /\ UNCHANGED <<readResult, network, skipVars, cwVars>>
    /\ UNCHANGED <<bookVars, mempoolVars, engineVars>>

\* CommandLog.appendEvent
LogAppendEvent ==
    /\ Len(logFile.lines) < MaxLines
    /\ logFile' = appendFile(logFile, EventEntry)
    /\ UNCHANGED <<readResult, network, skipVars, cwVars>>
    /\ UNCHANGED <<bookVars, mempoolVars, engineVars>>

\* a line that is not JSON gets into the file: an append cut short, or
\* damage to the file
LogLineTorn ==
    /\ Len(logFile.lines) < MaxLines
    /\ logFile' = appendFile(logFile, TornLine)
    /\ UNCHANGED <<readResult, network, skipVars, cwVars>>
    /\ UNCHANGED <<bookVars, mempoolVars, engineVars>>

\* CommandLog.readCommands, called by replayFromCommandLog
LogReadCommands ==
    /\ readResult' = [done |-> TRUE, file |-> logFile, commands |-> readCommands(logFile)]
    /\ UNCHANGED <<logFile, network, skipVars, cwVars>>
    /\ UNCHANGED <<bookVars, mempoolVars, engineVars>>

LogNext ==
    \/ LogAppendCommand
    \/ LogAppendEvent
    \/ LogLineTorn
    \/ LogReadCommands

LogSpecInit == BookInit /\ MempoolAtRest /\ EngineAtRest /\ InfraAtRest /\ SkipAtRest /\ CwAtRest

\* the command log file written, damaged and read
LogSpec == LogSpecInit /\ [][LogNext]_vars

(***************************************************************************)
(* NetworkSimulator.execute around the handler of order.submit, which      *)
(* calls engine.submitOrder.  A call of execute is suspended in sleep      *)
(* (position sleep) and in the wrapped action (position action), and has   *)
(* then returned.                                                          *)
(***************************************************************************)
\* what is sent through the network: a sell by user 1, a buy by user 2
NetRequests ==
    {Request(undefined, 1, "sell", "limit", 1, 1, "GTC", undefined, "undefined"),
     Request(undefined, 2, "buy", "market", 1, undefined, "undefined", undefined,
             "undefined")}

NetIds == 1 .. Len(network)

\* faulty variant of ActionIsInvoked: a dropped message reaches the action
ActionIsInvoked_always(dropped) == TRUE

\* NetworkSimulator.execute, lines 66-73: the action is called unless the
\* message is dropped
ActionIsInvoked(dropped) == ~dropped

\* the call of execute as it stands past the sleep: returned without the
\* action, or suspended in the action, which is command number call
PastSleep(n, call) ==
    IF ActionIsInvoked(n.dropped)
    THEN [n EXCEPT !.position = "action", !.invoked = n.invoked + 1, !.call = call]
    ELSE [n EXCEPT !.position = "returned", !.delivered = FALSE]

\* the calls of the engine once the action of n has called engine.submitOrder
CallsPastSleep(n) ==
    IF ActionIsInvoked(n.dropped)
    THEN Append(calls, [command |-> [commandId |-> Len(calls) + 1,
                                     type |-> "submit_order", payload |-> n.payload],
                        position |-> "append", trades |-> <<>>])
    ELSE calls

NewExecute(payload, dropped, latencyMs) ==
    [payload |-> payload, dropped |-> dropped, latencyMs |-> latencyMs,
     position |-> "sleep", invoked |-> 0, call |-> 0, delivered |-> FALSE,
     result |-> [commandId |-> 0, trades |-> <<>>]]

\* NetworkSimulator.execute is called: the draw is made; with no latency
\* the call goes on at once
NetExecute ==
    /\ Len(network) < MaxNetCalls
    /\ \E payload \in NetRequests, dropped \in BOOLEAN, latencyMs \in 0 .. MaxLatency :
          LET n == NewExecute(payload, dropped, latencyMs)
          IN IF latencyMs > 0
             THEN /\ network' = Append(network, n)
                  /\ calls' = calls
             ELSE /\ network' = Append(network, PastSleep(n, Len(calls) + 1))
                  /\ calls' = CallsPastSleep(n)
    /\ UNCHANGED <<logFile, readResult, skipVars, cwVars>>
    /\ UNCHANGED <<commandLog, orderToSymbol, applied, bus>>
    /\ UNCHANGED <<bookVars, mempoolVars>>

\* the await of sleep returns
NetSleepReturns ==
    \E i \in NetIds :
        /\ network[i].position = "sleep"
        /\ network[i].latencyMs > 0
        /\ network' = [network EXCEPT ![i] = PastSleep(network[i], Len(calls) + 1)]
        /\ calls' = CallsPastSleep(network[i])
        /\ UNCHANGED <<logFile, readResult, skipVars, cwVars>>
        /\ UNCHANGED <<commandLog, orderToSymbol, applied, bus>>
        /\ UNCHANGED <<bookVars, mempoolVars>>

\* the await of the action returns: execute returns its result
NetActionReturns ==
    \E i \in NetIds :
        /\ network[i].position = "action"
        /\ calls[network[i].call].position = "done"
        /\ network' = [network EXCEPT
               ![i].position = "returned",
               ![i].delivered = TRUE,
               ![i].result = [commandId |-> network[i].call,
                              trades |-> calls[network[i].call].trades]]
        /\ UNCHANGED <<logFile, readResult, skipVars, cwVars>>
        /\ UNCHANGED engineVars
        /\ UNCHANGED <<bookVars, mempoolVars>>

NetNext ==
    \/ NetExecute
    \/ NetSleepReturns
    \/ NetActionReturns
    \/ AppendCommandWrites
    \/ AppendCommandReturns
    \/ AppendEventReturns

NetSpecInit == BookInit /\ MempoolAtRest /\ EngineAtRest /\ InfraAtRest /\ SkipAtRest /\ CwAtRest

\* requests sent to the engine through the network simulator
NetSpec == NetSpecInit /\ [][NetNext]_vars

(***************************************************************************)
(* Properties of the mempool.                                              *)
(***************************************************************************)
SameBlock(a, b) ==
    /\ a.includedBlockNumber # undefined
    /\ a.includedBlockNumber = b.includedBlockNumber

\* a was included before b in the block they share
IncludedBefore(a, b) ==
    /\ a.txId # b.txId
    /\ SameBlock(a, b)
    /\ a.includedAt < b.includedAt

InclusionOrdered ==
    \A i, j \in DOMAIN transactions :
        LET a == transactions[i]
            b == transactions[j]
        IN IncludedBefore(a, b) =>
              /\ effectiveGas(a) >= effectiveGas(b)
              /\ effectiveGas(a) = effectiveGas(b) => a.submittedAtMs <= b.submittedAtMs
              /\ a.executedAt # 0 /\ a.executedAt < b.includedAt
              /\ b.executedAt # 0 => a.executedAt < b.executedAt

\* the step in which the include phase sorts the queue and takes its batch
IncludeBegins == txIdsToInclude = <<>> /\ txIdsToInclude' # <<>>

Members(ids) == {ids[k] : k \in 1 .. Len(ids)}

\* C6: within a block, transactions are included and executed in order of
\* non-increasing effective gas, equal gas in ascending submittedAtMs, and
\* every transaction taken into the block has effective gas at least that of
\* every transaction that was pending at the start of the include phase and
\* stays pending.
C6_GasPriorityWithinBlock ==
    [][/\ InclusionOrdered'
       /\ IncludeBegins =>
              \A t \in Members(txIdsToInclude'),
                 q \in Members(pendingTxIds) \cap Members(pendingTxIds') :
                  effectiveGas(transactions[t]) >= effectiveGas(transactions[q])]_vars

\* two transactions of one block, the first included submitted later and
\* paying more, and a third left pending by the cap
C6_Witness ==
    \E i, j, k \in DOMAIN transactions :
        /\ IncludedBefore(transactions[i], transactions[j])
        /\ i > j
        /\ effectiveGas(transactions[i]) > effectiveGas(transactions[j])
        /\ transactions[i].executedAt # 0
        /\ transactions[j].executedAt # 0
        /\ transactions[k].status = "pending"
        /\ k \in Members(pendingTxIds)
        /\ transactions[k].submittedAtMs > transactions[j].submittedAtMs

Settled(i) ==
    /\ Len(transactions) >= i
    /\ \/ transactions[i].status = "confirmed" /\ transactions[i].promise = "resolved"
       \/ transactions[i].status = "failed" /\ transactions[i].promise = "rejected"

C9_RequiredDepthBeforeConfirmation ==
    \A i \in DOMAIN transactions :
        transactions[i].status = "confirmed" =>
            transactions[i].confirmedBlockNumber
                - transactions[i].includedBlockNumber + 1
                >= transactions[i].requiredConfirmations

\* with probability 1 a transaction asking for 2 confirmations is confirmed
\* one block after its inclusion, not in the block that included it
C9_Witness ==
    \E i \in DOMAIN transactions :
        /\ config.confirmationProbabilityPerBlock = 2
        /\ transactions[i].status = "confirmed"
        /\ transactions[i].requiredConfirmations = 2
        /\ transactions[i].confirmedBlockNumber =
               transactions[i].includedBlockNumber + 1

\* the executor has been called on transaction i and has thrown
ExecutorThrew(i) ==
    /\ transactions[i].payload = "bad"
    /\ transactions[i].executions > 0
    /\ ~(pc = "exec" /\ Head(txIdsToInclude) = i)

\* the tick that took transaction i into its batch is over
BatchDone(i) ==
    /\ transactions[i].batchBlock # undefined
    /\ ~(processingTick /\ blockNumber = transactions[i].batchBlock)

C11_TickReentrancyGuard ==
    [][/\ blockNumber' # blockNumber =>
              ~processingTick /\ blockNumber' = blockNumber + 1
       /\ (processingTick /\ pc' = pc /\ txIdsToInclude' = txIdsToInclude) =>
              /\ blockNumber' = blockNumber
              /\ \A i \in DOMAIN transactions : transactions'[i] = transactions[i]
       /\ processingTick' <=> pc' # "idle"]_vars

\* a tick ended by an exception (a transaction was included and never
\* executed) and a later tick is running, suspended on the executor
C11_Witness ==
    /\ processingTick
    /\ pc = "exec"
    /\ \E i \in DOMAIN transactions :
        /\ transactions[i].includedBlockNumber # undefined
        /\ transactions[i].includedBlockNumber < blockNumber
        /\ transactions[i].executions = 0

(***************************************************************************)
(* Properties of the engine.                                               *)
(***************************************************************************)
\* every call has returned
Quiescent == \A c \in CommandIds : calls[c].position = "done"

\* the book of a fresh engine after the replay of the command log
Replayed == replayFromCommandLog(FreshEngine, commandLog).b

\* C12: replay idempotence.  Once every call has returned, replaying the
\* command log into a fresh engine with the same configuration gives bid and
\* ask depth equal to the depth of the engine that wrote the log.
C12_ReplayIdempotence ==
    Quiescent => getDepth(Replayed) = getDepth(TheBook)

\* where the record of command c stands in the log, 0 when it is not there
LogPosition(c) ==
    IF \E j \in 1 .. Len(commandLog) : commandLog[j].commandId = c
    THEN CHOOSE j \in 1 .. Len(commandLog) : commandLog[j].commandId = c
    ELSE 0

\* the record of every applied command is in the log
LoggedBeforeApplied ==
    \A i \in 1 .. Len(applied) : LogPosition(applied[i]) > 0

\* C13: the record of a command is in the command log before the command
\* changes a book, and the commands are applied in the order of their
\* records in the log, whatever the interleaving of concurrent calls.
C13_LogOrderIsApplyOrder ==
    /\ LoggedBeforeApplied
    /\ \A i, j \in 1 .. Len(applied) :
           i < j => LogPosition(applied[i]) < LogPosition(applied[j])

\* C15: the trade events delivered on the event bus for the symbol arrive
\* in strictly increasing sequence order, the trades of one submission in
\* the order of the matching loop, whatever the interleaving of concurrent
\* submissions.
C15_TradesArriveInSequenceOrder ==
    \A i, j \in 1 .. Len(bus) : i < j => bus[i].sequence < bus[j].sequence

(***************************************************************************)
(* Further properties of the order book.                                   *)
(***************************************************************************)
\* C14: the sequence counter of the book is strictly increasing over all it
\* produces.  Every trade and every order event of a call is numbered above
\* the counter as the call found it and not above the counter as the call
\* leaves it, no two of them share a number, and the events and the trades
\* are numbered in the order they were produced; so all that an earlier
\* call produced is numbered below all that a later call produces.
C14_SequenceStrictlyIncreasing ==
    [][LET events == last'.recorded
           trades == last'.trades
       IN /\ sequence <= sequence'
          /\ \A i \in 1 .. Len(events) :
                 sequence < events[i].sequence /\ events[i].sequence <= sequence'
          /\ \A i \in 1 .. Len(trades) :
                 sequence < trades[i].sequence /\ trades[i].sequence <= sequence'
          /\ \A i, j \in 1 .. Len(events) :
                 i < j => events[i].sequence < events[j].sequence
          /\ \A i, j \in 1 .. Len(trades) :
                 i < j => trades[i].sequence < trades[j].sequence
          /\ \A i \in 1 .. Len(events), j \in 1 .. Len(trades) :
                 events[i].sequence # trades[j].sequence]_vars

\* a later submission made two trades with an order event numbered between
\* them
C14_Witness ==
    /\ last.op = "submit"
    /\ opCount >= 2
    /\ Len(last.trades) = 2
    /\ \E i \in 1 .. Len(last.recorded) :
           /\ last.trades[1].sequence < last.recorded[i].sequence
           /\ last.recorded[i].sequence < last.trades[2].sequence

\* trade i of the last submission took all that its maker displayed while
\* the maker had reserve left
ExhaustsSlice(i) ==
    /\ last.trades[i].quantity = last.audit[i].displayedBefore
    /\ last.audit[i].reserveBefore > 0

\* trade i left its maker with a new slice of min(displayQuantity, reserve)
\* taken from its reserve, the visible total of the level grown by that
\* slice, and the maker at the tail of its level
Replenished(i) ==
    LET a == last.audit[i]
        slice == Min(a.displayQuantity, a.reserveBefore)
    IN /\ a.displayedAfter = slice
       /\ a.reserveAfter = a.reserveBefore - slice
       /\ a.visibleAfter = a.visibleBefore - last.trades[i].quantity + slice
       /\ a.lengthAfter = a.lengthBefore
       /\ a.posAfter = a.lengthAfter

C17_RestingQuantitySplit ==
    \A side \in Sides :
        LET index == IF side = "buy" THEN bids ELSE asks
        IN \A i \in 1 .. Len(index) :
               \A j \in 1 .. Len(index[i].value.queue) :
                   LET order == index[i].value.queue[j]
                   IN /\ order.remainingQuantity =
                             order.displayedRemainingQuantity
                                 + order.reserveRemainingQuantity
                      /\ order.displayedRemainingQuantity > 0
                      /\ order.reserveRemainingQuantity >= 0

\* an iceberg order rests after a trade took part of its displayed slice
\* while it has reserve left
C17_Witness ==
    \E i \in 1 .. Len(asks) :
        \E j \in 1 .. Len(asks[i].value.queue) :
            LET order == asks[i].value.queue[j]
            IN /\ order.reserveRemainingQuantity > 0
               /\ order.displayedRemainingQuantity < order.displayQuantity
               /\ order.remainingQuantity < order.originalQuantity

\* C18: zero-fill purity.  A submission that ends REJECTED, by validation or
\* by the fill-or-kill check, returns no trade and exactly one event, and
\* leaves bid depth, ask depth and the active order count as they were.
C18_ZeroFillPurity ==
    [][(last'.op = "submit" /\ last'.order.status = "REJECTED") =>
           /\ last'.trades = <<>>
           /\ Len(last'.events) = 1
           /\ last'.events[1].status = "REJECTED"
           /\ getDepth(TheBook)' = getDepth(TheBook)
           /\ getActiveOrderCount(TheBook)' = getActiveOrderCount(TheBook)]_vars

\* a fill-or-kill order was rejected on a book that holds part of what it
\* asked for
C18_Witness ==
    /\ last.op = "submit"
    /\ last.order.status = "REJECTED"
    /\ last.request.timeInForce = "FOK"
    /\ last.events[1].reason = "insufficient_liquidity_for_fok"
    /\ getActiveOrderCount(TheBook) > 0
    /\ \/ last.request.side = "buy" /\ asks # <<>>
       \/ last.request.side = "sell" /\ bids # <<>>

\* the result of submitting request to the book as it is: a GTC limit order
\* that rests and made no trade
RestsWithoutTrading(r) ==
    /\ r.order.kind = "limit"
    /\ r.order.timeInForce = "GTC"
    /\ r.order.status # "REJECTED"
    /\ r.trades = <<>>
    /\ r.order.id \in DOMAIN r.b.ordersById

\* submitting request and cancelling the order by its id brings depth and
\* the active order count back
RoundTrip(request) ==
    LET r == submitOrder(TheBook, request)
    IN RestsWithoutTrading(r) =>
           LET c == cancelOrder(r.b, r.order.id, NoUser)
           IN /\ c.canceled
              /\ getDepth(c.b) = getDepth(TheBook)
              /\ getActiveOrderCount(c.b) = getActiveOrderCount(TheBook)

\* C19: cancel round trip.  In every state of the book, submitting a GTC
\* limit order that rests without trading and cancelling it by its id at
\* once brings bid and ask depth (prices, quantities, order counts) and the
\* active order count back to what they were before the submission.
C19_CancelRoundTrip ==
    \A request \in Requests : RoundTrip(request)

\* the orders with the given id that rest in a level of the book
RestingWithId(id) ==
    {o \in UNION ({{bids[i].value.queue[j] : j \in 1 .. Len(bids[i].value.queue)} :
                       i \in 1 .. Len(bids)}
                   \cup {{asks[i].value.queue[j] : j \in 1 .. Len(asks[i].value.queue)} :
                            i \in 1 .. Len(asks)}) : o.id = id}

\* C20: cancelOrder(id, userId) removes an order only if the id is resting
\* and, when a userId is given, the order is of that user.  Otherwise it
\* returns canceled = false, with reason order_not_found when the id is not
\* resting and user_mismatch when the user differs, and leaves depth and the
\* active order count as they were.
C20_CancelOnlyOwnRestingOrder ==
    [][last'.op = "cancel" =>
           LET found == RestingWithId(last'.orderId)
               matching == {o \in found :
                               last'.userId = NoUser \/ o.userId = last'.userId}
           IN /\ last'.canceled =>
                     /\ \E o \in matching : o.sequence = last'.order.sequence
                     /\ last'.orderId \notin DOMAIN ordersById'
                     /\ Cardinality(DOMAIN ordersById') = Cardinality(DOMAIN ordersById) - 1
              /\ matching = {} =>
                     /\ ~last'.canceled
                     /\ last'.reason = (IF found = {} THEN "order_not_found"
                                        ELSE "user_mismatch")
              /\ ~last'.canceled =>
                     /\ last'.reason \in {"order_not_found", "user_mismatch"}
                     /\ last'.events = <<>>
                     /\ bids' = bids /\ asks' = asks /\ ordersById' = ordersById]_vars

\* a cancel naming a resting order of another user was refused
C20_Witness ==
    /\ last.op = "cancel"
    /\ ~last.canceled
    /\ last.reason = "user_mismatch"
    /\ last.userId # NoUser
    /\ RestingWithId(last.orderId) # {}

\* the order node is linked in no level of the book after the step
UnlinkedAfter(node) ==
    /\ \A i \in 1 .. Len(bids') : \A j \in 1 .. Len(bids'[i].value.queue) :
           bids'[i].value.queue[j].sequence # node
    /\ \A i \in 1 .. Len(asks') : \A j \in 1 .. Len(asks'[i].value.queue) :
           asks'[i].value.queue[j].sequence # node

\* after the step the book holds nothing the order could still trade with
NothingCrossesAfter(order) ==
    LET index == IF order.side = "buy" THEN asks' ELSE bids'
    IN \/ index = <<>>
       \/ /\ order.kind = "limit"
          /\ ~isCrossingPrice(order.side, order.price, index[1].value.price)

\* C21: self-trade prevention.  For an incoming order whose mode is not
\* none, no trade of the submission has the same user on both sides.  Under
\* cancel_oldest an own maker met at the head of the best crossing level is
\* taken out of the book with a CANCELED event of reason
\* self_trade_prevention_cancel_oldest, the taker is not canceled, and
\* matching goes on: it stops only when the taker is filled or nothing
\* crosses any more.
C21_SelfTradePrevention ==
    [][(/\ last'.op = "submit"
        /\ last'.order.status # "REJECTED"
        /\ last'.order.selfTradePrevention # "none")
       => /\ \A i \in 1 .. Len(last'.trades) :
                 last'.trades[i].buyUserId # last'.trades[i].sellUserId
          /\ (/\ last'.order.selfTradePrevention = "cancel_oldest"
              /\ OwnHeadOfBestCrossingLevel(TheBook, last'.request))
             => LET maker == Head(getBestOppositeLevel(TheBook, last'.request.side).queue)
                IN /\ UnlinkedAfter(maker.sequence)
                   /\ \E k \in 1 .. Len(last'.recorded) :
                          /\ last'.recorded[k].orderId = maker.id
                          /\ last'.recorded[k].status = "CANCELED"
                          /\ last'.recorded[k].reason =
                                 "self_trade_prevention_cancel_oldest"
                          /\ last'.recorded[k].remainingQuantity = maker.remainingQuantity
                   /\ last'.order.status # "CANCELED"
                   /\ last'.order.remainingQuantity = 0
                          \/ NothingCrossesAfter(last'.order)]_vars

\* a cancel_oldest taker removed its own maker and then traded with the
\* order of another user
C21_Witness ==
    /\ last.op = "submit"
    /\ last.order.selfTradePrevention = "cancel_oldest"
    /\ last.trades # <<>>
    /\ \E k \in 1 .. Len(last.recorded) :
           /\ last.recorded[k].reason = "self_trade_prevention_cancel_oldest"
           /\ last.recorded[k].sequence < last.trades[1].sequence

(***************************************************************************)
(* Properties of the command log.                                          *)
(***************************************************************************)
\* the payloads of the command entries among the lines, in file order
RECURSIVE IntactCommands(_)
IntactCommands(lines) ==
    IF lines = <<>> THEN <<>>
    ELSE IF Head(lines).entryType = "command"
    THEN <<Head(lines).payload>> \o IntactCommands(Tail(lines))
    ELSE IntactCommands(Tail(lines))

\* C22: reading a command log that holds damaged or partial lines returns
\* every well-formed command entry in file order and ignores the bad
\* lines; a missing file gives the empty list.
C22_ReadIgnoresBadLines ==
    readResult.done =>
        readResult.commands = IntactCommands(readResult.file.lines)

(***************************************************************************)
(* Properties of the network simulator.                                    *)
(***************************************************************************)
\* the calls of execute whose action was invoked
Invoked == {i \in NetIds : network[i].invoked > 0}

\* C23: a dropped invocation (delivered = false) never invokes the wrapped
\* action, so it changes nothing in the engine, the book or the mempool; a
\* delivered one (delivered = true) has invoked the action exactly once and
\* returns the result of that invocation.
C23_DroppedNeverReachesEngine ==
    /\ \A i \in NetIds :
           /\ network[i].dropped => network[i].invoked = 0 /\ ~network[i].delivered
           /\ network[i].position = "returned" =>
                  /\ network[i].delivered <=> ~network[i].dropped
                  /\ network[i].delivered =>
                         /\ network[i].invoked = 1
                         /\ calls[network[i].call].command.payload = network[i].payload
                         /\ calls[network[i].call].position = "done"
                         /\ network[i].result.commandId = network[i].call
                         /\ network[i].result.trades = calls[network[i].call].trades
    /\ Len(calls) = Cardinality(Invoked)
    /\ \A i, j \in Invoked : i # j => network[i].call # network[j].call
    /\ Invoked = {} => BookInit /\ EngineAtRest /\ MempoolAtRest

\* one message was dropped after its sleep, another was delivered and came
\* back with a trade
C23_Witness ==
    \E i, j \in NetIds :
        /\ network[i].position = "returned"
        /\ network[i].dropped
        /\ network[i].latencyMs > 0
        /\ network[j].position = "returned"
        /\ network[j].delivered
        /\ network[j].result.trades # <<>>

(***************************************************************************)
(* Further properties of the mempool.                                      *)
(***************************************************************************)
\* the transactions stamped with block k, after the step
StampedAfter(k) ==
    {i \in DOMAIN transactions' : transactions'[i].includedBlockNumber = k}

\* the transactions the include phase of block k took, after the step
TakenAfter(k) ==
    {i \in DOMAIN transactions' : transactions'[i].batchBlock = k}

\* C24: in every block at most maxTransactionsPerBlock transactions are
\* stamped with the number of that block, and the include phase takes
\* exactly min(pending count, maxTransactionsPerBlock) of the transactions
\* pending when it begins; no transaction outside of them is stamped with
\* the block.
C24_BlockCapacity ==
    [][/\ \A k \in 1 .. blockNumber' :
              /\ Cardinality(StampedAfter(k)) <= config.maxTransactionsPerBlock
              /\ StampedAfter(k) \subseteq TakenAfter(k)
       /\ Len(pendingTxIds') < Len(pendingTxIds) =>
              LET taken == Members(pendingTxIds) \ Members(pendingTxIds')
              IN /\ Cardinality(taken) =
                        Min(Len(pendingTxIds), config.maxTransactionsPerBlock)
                 /\ taken = TakenAfter(blockNumber')
                 /\ Members(pendingTxIds') \subseteq Members(pendingTxIds)]_vars

\* a block is full and a transaction that was pending when its include
\* phase began is still in the queue
C24_Witness ==
    \E k \in 1 .. blockNumber :
        LET stamped == {i \in DOMAIN transactions :
                           transactions[i].includedBlockNumber = k}
        IN /\ Cardinality(stamped) = config.maxTransactionsPerBlock
           /\ \E j \in Members(pendingTxIds), i \in stamped :
                  transactions[j].submittedAtMs < transactions[i].submittedAtMs

(***************************************************************************)
(* Properties of the events of the book.                                   *)
(***************************************************************************)
\* C25: in every submit result, the first element of events is the event
\* of the submitted order itself and carries the status the order has for
\* this submission: its terminal status, or NEW or PARTIALLY_FILLED when it
\* rests.
C25_FirstEventIsOwnStatus ==
    last.op = "submit" =>
        /\ last.events # <<>>
        /\ last.events[1].orderId = last.order.id
        /\ last.events[1].status = last.order.status

\* the orders linked in the levels of the two side indexes
LinkedOrders(bidIndex, askIndex) ==
    UNION ({{bidIndex[i].value.queue[j] : j \in 1 .. Len(bidIndex[i].value.queue)} :
               i \in 1 .. Len(bidIndex)}
           \cup {{askIndex[i].value.queue[j] : j \in 1 .. Len(askIndex[i].value.queue)} :
                    i \in 1 .. Len(askIndex)})

\* the call recorded an event for order o with the given status and
\* remaining quantity
RecordedFor(o, status, remainingQuantity) ==
    \E k \in 1 .. Len(last'.recorded) :
        /\ last'.recorded[k].orderId = o.id
        /\ last'.recorded[k].status = status
        /\ last'.recorded[k].remainingQuantity = remainingQuantity

\* C26: every change of an order's status, of the incoming order and of
\* each maker affected during a match, produces an order event recorded by
\* the book that carries the id of the order, the new status and the
\* remaining quantity at that moment; the incoming order gets exactly one
\* event with its status.
C26_EveryStatusChangeHasAnEvent ==
    [][(last'.op = "submit" /\ last'.order.status # "REJECTED") =>
           /\ \A o \in LinkedOrders(bids, asks) :
                  LET after == {n \in LinkedOrders(bids', asks') : n.sequence = o.sequence}
                  IN /\ after = {} =>
                            \/ RecordedFor(o, "FILLED", 0)
                            \/ RecordedFor(o, "CANCELED", o.remainingQuantity)
                     /\ \A n \in after :
                            n.status # o.status =>
                                RecordedFor(o, n.status, n.remainingQuantity)
           /\ Cardinality({k \in 1 .. Len(last'.recorded) :
                               /\ last'.recorded[k].orderId = last'.order.id
                               /\ last'.recorded[k].status = last'.order.status}) = 1]_vars

(***************************************************************************)
(* Properties of depth rows and price levels.                               *)
(***************************************************************************)
\* the orders resting on one side at one price
RestingAt(side, price) ==
    {o \in LinkedOrders(bids, asks) : o.side = side /\ o.price = price}

\* the prices at which orders rest on one side
RestingPrices(side) == {o.price : o \in {n \in LinkedOrders(bids, asks) : n.side = side}}

RECURSIVE SumDisplayed(_)
SumDisplayed(orders) ==
    IF orders = {} THEN 0
    ELSE LET o == CHOOSE x \in orders : TRUE
         IN o.displayedRemainingQuantity + SumDisplayed(orders \ {o})

\* price p is better than price q on the side
Better(side, p, q) == IF side = "buy" THEN p > q ELSE p < q

\* the depths a caller asks for
Depths == 0 .. MaxPrice

\* C27: each snapshot or depth row describes one non-empty price level:
\* its quantity is the sum of the displayed remaining quantity of the orders
\* resting at that price (hidden reserve never included) and its order count
\* is their number; rows run best price first (bids descending, asks
\* ascending) and there are at most depth rows per side, the best ones.
C27_DepthRowsDescribeLevels ==
    \A side \in {"buy", "sell"} : \A depth \in Depths :
        LET rows == collectDepth(TheBook, side, depth)
        IN /\ Len(rows) = Min(Cardinality(RestingPrices(side)), depth)
           /\ \A i \in 1 .. Len(rows) :
                  /\ rows[i].price \in RestingPrices(side)
                  /\ rows[i].orderCount = Cardinality(RestingAt(side, rows[i].price))
                  /\ rows[i].orderCount > 0
                  /\ rows[i].quantity = SumDisplayed(RestingAt(side, rows[i].price))
                  /\ Cardinality({p \in RestingPrices(side) :
                                      Better(side, p, rows[i].price)}) = i - 1

\* C29: in every reachable state each price level has
\* totalVisibleQuantity = the sum of the displayed remaining quantity over
\* its queue and orderCount = the length of its queue, and orderCount = 0
\* exactly when the queue has no head and no tail.
C29_PriceLevelInvariants ==
    \A index \in {bids, asks} : \A i \in 1 .. Len(index) :
        LET level == index[i].value
        IN /\ level.totalVisibleQuantity =
                  SumSeq([j \in 1 .. Len(level.queue) |->
                              level.queue[j].displayedRemainingQuantity])
           /\ level.orderCount = Len(level.queue)
           /\ level.orderCount = 0 <=> level.queue = <<>>

\* C29 witness: after a trade replenished an iceberg order and moved it to
\* the tail, its level still holds it behind another order
C29_Witness ==
    /\ last.op = "submit"
    /\ last.trades # <<>>
    /\ \E i \in 1 .. Len(asks) :
           LET queue == asks[i].value.queue
           IN /\ Len(queue) > 1
              /\ queue[Len(queue)].status = "PARTIALLY_FILLED"
              /\ queue[Len(queue)].reserveRemainingQuantity > 0

(***************************************************************************)
(* Retention of trades and events.                                          *)
(***************************************************************************)
\* the capacity tried for the rings of a book: as many records as requests
RetainCapacity == MaxOps

\* C28: the number of trade records and of order events a book retains is
\* bounded by a fixed capacity, however many submissions and trades occur:
\* with rings of RetainCapacity records, neither OrderBook.trades nor
\* OrderBook.events ever holds more.
C28_RetentionIsBounded ==
    /\ tradeCount <= RetainCapacity
    /\ eventCount <= RetainCapacity

(***************************************************************************)
(* The order map and the levels.                                            *)
(***************************************************************************)
\* the places of the levels' queues: side index, level and position
LinkedPlaces ==
    {<<side, i, j>> \in {"buy", "sell"} \X (1 .. MaxOps) \X (1 .. MaxOps) :
        /\ i <= Len(indexForSide(TheBook, side))
        /\ j <= Len(indexForSide(TheBook, side)[i].value.queue)}

OrderAtPlace(place) == indexForSide(TheBook, place[1])[place[2]].value.queue[place[3]]

\* C30: for any sequence of submit and cancel requests, whatever ids the
\* requests carry, an order is linked in at most one price level and at most
\* once in that level's queue, an id is in ordersById exactly when an order
\* with that id is linked in a level, and getActiveOrderCount() is the total
\* number of orders linked in all levels.
C30_OrderMapMatchesLevels ==
    /\ \A p, q \in LinkedPlaces :
           OrderAtPlace(p).sequence = OrderAtPlace(q).sequence => p = q
    /\ \A id \in DOMAIN ordersById \cup {OrderAtPlace(p).id : p \in LinkedPlaces} :
           id \in DOMAIN ordersById <=> \E p \in LinkedPlaces : OrderAtPlace(p).id = id
    /\ getActiveOrderCount(TheBook) = Cardinality(LinkedPlaces)

(***************************************************************************)
(* Quantities of resting orders.                                            *)
(***************************************************************************)
\* C31 as stated: for every order resting in the book, in every reachable
\* state, displayedRemainingQuantity <= displayQuantity <= remainingQuantity.
C31_DisplayChain ==
    \A o \in LinkedOrders(bids, asks) :
        /\ o.displayedRemainingQuantity <= o.displayQuantity
        /\ o.displayQuantity <= o.remainingQuantity

\* C31 amended: for every order resting in the book, in every reachable
\* state, the displayed remaining quantity is at most the display quantity
\* and at most the remaining quantity, and it is positive; the display
\* quantity itself stays at its value of creation and may exceed what
\* remains.
C31_DisplayedWithinSliceAndRemainder ==
    \A o \in LinkedOrders(bids, asks) :
        /\ o.displayedRemainingQuantity <= o.displayQuantity
        /\ o.displayedRemainingQuantity <= o.remainingQuantity
        /\ o.displayedRemainingQuantity > 0
        /\ o.displayQuantity <= o.originalQuantity

\* C31 witness: a resting order was traded down below its display quantity,
\* and an iceberg order rests with its slice refreshed
C31_Witness ==
    /\ \E o \in LinkedOrders(bids, asks) :
           /\ o.status = "PARTIALLY_FILLED"
           /\ o.displayQuantity > o.remainingQuantity
    /\ \E o \in LinkedOrders(bids, asks) :
           /\ o.status = "PARTIALLY_FILLED"
           /\ o.reserveRemainingQuantity > 0

\* list.upsert(key, value)
ListUpsertCall ==
    \E key \in SkipKeys, value \in SkipValues, nodeLevel \in NodeLevels :
        /\ skipLast.calls < MaxSkipOps
        /\ skipList' = ListUpsert(skipList, key, value, nodeLevel)
        /\ skipMap' = [k \in DOMAIN skipMap \cup {key} |->
                          IF k = key THEN value ELSE skipMap[k]]
        /\ skipLast' = [op |-> "upsert", key |-> key, value |-> value,
                        returned |-> FALSE, list |-> skipList, map |-> skipMap,
                        calls |-> skipLast.calls + 1]
        /\ UNCHANGED <<bookVars, mempoolVars, engineVars, infraVars, cwVars>>

\* list.delete(key)
ListDeleteCall ==
    \E key \in SkipKeys :
        /\ skipLast.calls < MaxSkipOps
        /\ skipList' = ListDelete(skipList, key).list
        /\ skipMap' = [k \in DOMAIN skipMap \ {key} |-> skipMap[k]]
        /\ skipLast' = [op |-> "delete", key |-> key, value |-> 0,
                        returned |-> ListDelete(skipList, key).returned,
                        list |-> skipList, map |-> skipMap,
                        calls |-> skipLast.calls + 1]
        /\ UNCHANGED <<bookVars, mempoolVars, engineVars, infraVars, cwVars>>

SkipNext == ListUpsertCall \/ ListDeleteCall

SkipSpecInit == BookInit /\ MempoolAtRest /\ EngineAtRest /\ InfraAtRest /\ SkipAtRest /\ CwAtRest

SkipSpec == SkipSpecInit /\ [][SkipNext]_vars

\* the limits a caller of entries gives: none, or a count
SkipLimits == {undefined} \cup (0 .. 2 * MaxKey + 1)

\* C32: for any sequence of upsert and delete calls the skip list behaves
\* as a sorted map with unique numeric keys: get returns the last value
\* upserted for a key not deleted since, delete returns true exactly when
\* the key was present, upsert of an existing key replaces the value without
\* changing size, first() is the entry of the minimum key (null when empty),
\* entries(limit) yields entries in strictly ascending key order and at most
\* limit of them, and size is the number of keys present.
C32_SkipListIsSortedMap ==
    /\ \A key \in SkipKeys :
           ListGet(skipList, key) =
               IF key \in DOMAIN skipMap THEN skipMap[key] ELSE undefined
    /\ skipLast.op = "delete" => skipLast.returned = (skipLast.key \in DOMAIN skipLast.map)
    /\ (skipLast.op = "upsert" /\ skipLast.key \in DOMAIN skipLast.map) =>
           skipList.size = skipLast.list.size
    /\ ListFirst(skipList) =
           IF DOMAIN skipMap = {} THEN null
           ELSE LET least == CHOOSE k \in DOMAIN skipMap : \A m \in DOMAIN skipMap : k <= m
                IN [key |-> least, value |-> skipMap[least]]
    /\ \A limit \in SkipLimits :
           LET yielded == ListEntries(skipList, limit)
           IN /\ \A i \in 1 .. Len(yielded) :
                     /\ yielded[i].key \in DOMAIN skipMap
                     /\ yielded[i].value = skipMap[yielded[i].key]
                     /\ \A j \in 1 .. Len(yielded) : i < j => yielded[i].key < yielded[j].key
              /\ limit # undefined => Len(yielded) <= limit
              /\ limit = undefined => Len(yielded) = Cardinality(DOMAIN skipMap)
    /\ skipList.size = Cardinality(DOMAIN skipMap)

(***************************************************************************)
(* Life cycle of a virtual transaction.                                     *)
(***************************************************************************)
\* the moves of a transaction's status
StatusMoves ==
    {<<"pending", "included">>, <<"included", "confirmed">>, <<"included", "failed">>}

C34_ConfirmedOnlyIfExecuted ==
    \A i \in DOMAIN transactions :
        transactions[i].status = "confirmed" =>
            /\ transactions[i].executions = 1
            /\ ~ExecutorThrew(i)

(***************************************************************************)
(* CoreWriterActionBridge.syncOnce as a state machine.                      *)
(***************************************************************************)
\* the kinds of queued action: a spot limit order that reaches the engine,
\* and a kind the bridge does not support
ActionKinds == {"limit", "unsupported"}

\* what walletClient.sendTransaction and the receipt come to: mined and
\* successful, not mined or reverted, or mined with the bridge seeing an error
TxOutcomes == {"success", "failed", "lost"}

\* sendTransaction: what the bridge returns
sendTransaction(outcome) == outcome = "success"

\* whether the contract call of the transaction took effect
Mined(outcome) == outcome \in {"success", "lost"}

\* CoreWriterSim.consumeQueuedActions
consumeQueuedActions(queue, count) == SubSeq(queue, count + 1, Len(queue))

\* processAction: whether the action goes to engine.submitOrder
ReachesEngine(action, processedActions) ==
    action.actionId \notin processedActions /\ action.kind = "limit"

\* processAction: the value returned, given the outcome of the transaction
\* that settles or marks the action
processAction(action, processedActions, outcome) ==
    IF action.actionId \in processedActions THEN TRUE ELSE sendTransaction(outcome)

\* faulty variant of LoopContinues: the loop goes on after a failure
LoopContinues_always(success) == TRUE

\* syncOnce, the for loop: it goes on after a success and breaks otherwise
LoopContinues(success) == success

\* syncOnce, the loop body for the head of the actions still to process
processNext(run, processedActions, outcome) ==
    LET action == Head(run.actions)
        success == processAction(action, processedActions, outcome)
        counted == [run EXCEPT
                       !.processed = @ + 1,
                       !.handled = Append(@, [actionId |-> action.actionId,
                                              success |-> success]),
                       !.applied = IF success THEN @ + 1 ELSE @,
                       !.consumableCount = IF success THEN @ + 1 ELSE @,
                       !.failed = IF success THEN @ ELSE @ + 1]
        rest == IF LoopContinues(success) THEN Tail(run.actions) ELSE <<>>
    IN [counted EXCEPT !.actions = rest,
                       !.pc = IF rest = <<>> THEN "consume" ELSE "process"]

\* the CoreWriter contract queues an action
CwEnqueue ==
    /\ cwEnqueued < MaxActions
    /\ \E kind \in ActionKinds :
           cwQueue' = Append(cwQueue, [actionId |-> cwEnqueued + 1, kind |-> kind])
    /\ cwEnqueued' = cwEnqueued + 1
    /\ UNCHANGED <<cwProcessed, cwSubmitted, cwSync>>
    /\ UNCHANGED <<bookVars, mempoolVars, engineVars, infraVars, skipVars>>

\* syncOnce is called while no run is going on: up to the reading of the
\* queued actions; with an empty queue the run is over
CwSyncStart ==
    /\ ~cwSync.syncing
    /\ cwSync.runs < MaxSyncRuns
    /\ cwSync' = IF Len(cwQueue) = 0
                 THEN [IdleSync EXCEPT !.runs = cwSync.runs + 1]
                 ELSE [IdleSync EXCEPT !.runs = cwSync.runs + 1,
                                       !.syncing = TRUE,
                                       !.pc = "process",
                                       !.actions = cwQueue,
                                       !.seen = cwQueue]
    /\ UNCHANGED <<cwQueue, cwEnqueued, cwProcessed, cwSubmitted>>
    /\ UNCHANGED <<bookVars, mempoolVars, engineVars, infraVars, skipVars>>

\* syncOnce is called while a run is going on: it returns at once
CwSyncSkipped ==
    /\ cwSync.syncing
    /\ UNCHANGED cwVars
    /\ UNCHANGED <<bookVars, mempoolVars, engineVars, infraVars, skipVars>>

\* processAction settles for the next action of the run
CwProcessAction ==
    /\ cwSync.pc = "process"
    /\ \E outcome \in TxOutcomes :
        LET action == Head(cwSync.actions)
        IN /\ cwSubmitted' = IF ReachesEngine(action, cwProcessed)
                             THEN Append(cwSubmitted, action.actionId)
                             ELSE cwSubmitted
           /\ cwProcessed' = IF action.actionId \notin cwProcessed /\ Mined(outcome)
                             THEN cwProcessed \cup {action.actionId}
                             ELSE cwProcessed
           /\ cwSync' = processNext(cwSync, cwProcessed, outcome)
    /\ UNCHANGED <<cwQueue, cwEnqueued>>
    /\ UNCHANGED <<bookVars, mempoolVars, engineVars, infraVars, skipVars>>

\* syncOnce after the loop: the consume transaction when there is something
\* to consume, then the finally block
CwSyncFinish ==
    /\ cwSync.pc = "consume"
    /\ \E outcome \in TxOutcomes :
        /\ cwQueue' = IF cwSync.consumableCount > 0 /\ Mined(outcome)
                      THEN consumeQueuedActions(cwQueue, cwSync.consumableCount)
                      ELSE cwQueue
        /\ cwSync' = [cwSync EXCEPT !.syncing = FALSE, !.pc = "idle",
                                    !.asked = cwSync.consumableCount]
    /\ UNCHANGED <<cwEnqueued, cwProcessed, cwSubmitted>>
    /\ UNCHANGED <<bookVars, mempoolVars, engineVars, infraVars, skipVars>>

CwNext ==
    \/ CwEnqueue
    \/ CwSyncStart
    \/ CwSyncSkipped
    \/ CwProcessAction
    \/ CwSyncFinish

CwSpecInit ==
    BookInit /\ MempoolAtRest /\ EngineAtRest /\ InfraAtRest /\ SkipAtRest /\ CwAtRest

CwSpec == CwSpecInit /\ [][CwNext]_vars

\* the run of syncOnce is over
RunOver == cwSync.runs > 0 /\ cwSync.pc = "idle"

\* the number of actions the run processed with success
Successes ==
    Cardinality({i \in 1 .. Len(cwSync.handled) : cwSync.handled[i].success})

C40_SubmittedAtMostOnce ==
    \A i, j \in 1 .. Len(cwSubmitted) : cwSubmitted[i] = cwSubmitted[j] => i = j

(***************************************************************************)
(* The engine's order map and the book.                                     *)
(***************************************************************************)
\* C36: after every engine submit or cancel completes, the engine's map
\* from order id to symbol contains an id exactly when an order with that id
\* is resting in that symbol's book, so cancelOrder without a symbol reaches
\* every resting order and returns order_symbol_not_found exactly for ids
\* that are not resting.
C36_OrderMapMatchesBook ==
    Quiescent => orderToSymbol = {o.id : o \in LinkedOrders(bids, asks)}

(***************************************************************************)
(* The two sides of the book.                                               *)
(***************************************************************************)
\* C37: after every submitOrder or cancelOrder returns, the book is not
\* crossed: when both sides are non-empty the best bid price is strictly
\* below the best ask price.
C37_BookIsNotCrossed ==
    (bids # <<>> /\ asks # <<>>) =>
        SkipFirst(bids).value.price < SkipFirst(asks).value.price

\* C37 witness: a limit order that crossed the book traded against the best
\* level and rested its remainder, with both sides non-empty
C37_Witness ==
    /\ last.op = "submit"
    /\ last.trades # <<>>
    /\ last.order.status = "PARTIALLY_FILLED"
    /\ bids # <<>>
    /\ asks # <<>>

(***************************************************************************)
(* Conservation of quantity.                                                *)
(***************************************************************************)
\* the quantity of the trades of the submission made against the maker node
MakerTraded(node) ==
    SumSeq([i \in 1 .. Len(last'.trades) |->
               IF last'.audit[i].makerNode = node THEN last'.trades[i].quantity ELSE 0])

\* C38: quantity conservation.  For every submission the sum of its trade
\* quantities is originalQuantity - remainingQuantity of the returned
\* order, and the remaining quantity of each maker goes down by exactly the
\* total quantity of the trades it took part in.
C38_QuantityConservation ==
    [][last'.op = "submit" =>
           /\ TradedQuantity(last'.trades) =
                  last'.order.originalQuantity - last'.order.remainingQuantity
           /\ \A o \in LinkedOrders(bids, asks) :
                  /\ \A n \in LinkedOrders(bids', asks') :
                         n.sequence = o.sequence =>
                             n.remainingQuantity =
                                 o.remainingQuantity - MakerTraded(o.sequence)
                  /\ MakerTraded(o.sequence) <= o.remainingQuantity]_vars

(***************************************************************************)
(* The pending queue of the mempool.                                        *)
(***************************************************************************)
\* VirtualMempool.getPendingCount
getPendingCount == Len(pendingTxIds)

\* C39: in every state observable between mempool operations, including
\* while a tick is suspended on an executor or bridge call and after a tick
\* that failed part-way, getPendingCount() is the number of transactions
\* whose status is pending, and every transaction with status pending is in
\* the pending queue.
C39_PendingCountMatchesStatus ==
    /\ getPendingCount =
           Cardinality({i \in DOMAIN transactions : transactions[i].status = "pending"})
    /\ \A i \in DOMAIN transactions :
           transactions[i].status = "pending" => i \in Members(pendingTxIds)

====
